---- MODULE Spec2Model ----
(***************************************************************************)
(* CPU scheduling core of the OS simulator: the scheduler contract         *)
(* (scheduling/base_scheduler.py), the seven scheduling algorithms and the *)
(* adaptive selector, modelled as a state machine.                         *)
(*                                                                         *)
(* A state is one point of a schedule() call: the caller's process list,   *)
(* the scheduler instance's fields, and the local variables of schedule(). *)
(* Every iteration of a scheduler's main loop is two steps: a dispatch     *)
(* step (admit arrivals, idle jump or selection of the next process) and a *)
(* run step (execution, Gantt entry, completion or re-queueing).           *)
(* Processes are referred to by their position in the caller's list.       *)
(***************************************************************************)
EXTENDS Integers, Sequences, FiniteSets, TLC

(* ---------------------------------------------------------------------- *)
(* Bounds of the explored inputs                                          *)
(* ---------------------------------------------------------------------- *)
MaxProcs == 2
MaxArrival == 2
MaxBurst == 3
MaxPriority == 1
MaxSelectorProcs == 3
MaxRerunProcs == 2
MaxRuns == 3
MaxThreads == 2
MaxIncrements == 2
MaxRequestsEach == 2
CrowdSize == 11

(* ---------------------------------------------------------------------- *)
(* Program constants                                                      *)
(* ---------------------------------------------------------------------- *)
DefaultTimeQuantum == 10
DefaultAgingInterval == 50
DefaultAgingAmount == 1
DefaultTimeQuantums == <<8, 16, 0>>
DefaultBoostInterval == 500
MIN_TIME_QUANTUM == 10
MAX_TIME_QUANTUM == 50
QUANTUM_DIVISOR == 5
PRIORITY_VARIANCE_THRESHOLD == 6
PRIORITY_RANGE_THRESHOLD == 7

VARIABLES
    algorithm,        \* which scheduler class the instance is
    time_quantum,     \* RoundRobinScheduler.time_quantum
    aging_interval,   \* PreemptivePriorityScheduler.aging_interval
    aging_amount,     \* PreemptivePriorityScheduler.aging_amount
    time_quantums,    \* MLFQScheduler.time_quantums
    boost_interval,   \* MLFQScheduler.boost_interval
    processes,        \* the caller's list of Process objects
    pc,               \* position of the call: idle, loop, run, exit, returned, raised
    ready_queue,      \* BaseScheduler.ready_queue
    circular_queue,   \* RoundRobinScheduler.circular_queue
    queues,           \* MLFQScheduler.queues
    current_time,     \* BaseScheduler.current_time
    gantt_chart,      \* BaseScheduler.gantt_chart
    context_switches, \* BaseScheduler.context_switches
    running_process,  \* BaseScheduler.running_process (0 is None)
    remaining,        \* local of schedule(): not yet arrived, sorted
    completed_count,  \* local of schedule()
    last_aging_time,  \* local of PreemptivePriorityScheduler.schedule
    last_boost_time,  \* MLFQScheduler.last_boost_time
    current_level,    \* local of MLFQScheduler.schedule
    iterations,       \* passes through the main loop begun by the current call
    result,           \* the SchedulingResult returned by schedule()
    recommendation,   \* the SchedulerRecommendation returned by select_scheduler()
    history,          \* the results of earlier schedule() calls the caller holds
    test_type,        \* which demo of RaceConditionDemo is running
    num_threads,      \* argument of run_with_mutex / run_without_mutex
    increments,       \* argument of run_with_mutex / run_without_mutex
    counter,          \* the SharedCounter of the demo: value, mutex, operations
    threads,          \* local list of worker threads, with each worker's position
    joined,           \* how many threads the demo has joined
    demo_pc,          \* position of the demo: idle, starting, joining, returned
    race_result,      \* the RaceConditionResult returned by the demo
    resources,        \* ResourceManager.resources: rid -> Resource
    process_resources,\* allocated_resources / requested_resources of each Process
    rag,              \* the ResourceAllocationGraph: nodes and edges
    allocation_history, \* ResourceManager.allocation_history
    deadlock_report   \* what the last check_deadlock() returned

vars == <<algorithm, time_quantum, aging_interval, aging_amount, time_quantums,
          boost_interval, processes, pc, ready_queue, circular_queue, queues,
          current_time, gantt_chart, context_switches, running_process,
          remaining, completed_count, last_aging_time, last_boost_time,
          current_level, iterations, result, recommendation, history,
          test_type, num_threads, increments, counter, threads, joined,
          demo_pc, race_result, resources, process_resources, rag,
          allocation_history, deadlock_report>>

engineVars == <<resources, process_resources, rag, allocation_history,
                deadlock_report>>

syncVars == <<test_type, num_threads, increments, counter, threads, joined,
              demo_pc, race_result>>

configVars == <<algorithm, time_quantum, aging_interval, aging_amount,
                time_quantums, boost_interval>>

\* MLFQScheduler.num_levels
num_levels == Len(time_quantums)

(* ---------------------------------------------------------------------- *)
(* Generic helpers                                                        *)
(* ---------------------------------------------------------------------- *)
None == 0

Min2(a, b) == IF a <= b THEN a ELSE b

Max2(a, b) == IF a >= b THEN a ELSE b

SetMin(S) == CHOOSE x \in S : \A y \in S : x <= y

Range(s) == {s[i] : i \in 1..Len(s)}

RECURSIVE SumSeq(_)
SumSeq(s) == IF s = <<>> THEN 0 ELSE Head(s) + SumSeq(Tail(s))

\* Python tuple comparison a < b for tuples of equal length
RECURSIVE LexLess(_, _)
LexLess(a, b) ==
    IF a = <<>> THEN FALSE
    ELSE IF Head(a) < Head(b) THEN TRUE
    ELSE IF Head(a) > Head(b) THEN FALSE
    ELSE LexLess(Tail(a), Tail(b))

\* insert x behind every element whose key is not greater (stable)
RECURSIVE Insert(_, _, _)
Insert(x, s, key) ==
    IF s = <<>> THEN <<x>>
    ELSE IF LexLess(key[x], key[Head(s)]) THEN <<x>> \o s
    ELSE <<Head(s)>> \o Insert(x, Tail(s), key)

RECURSIVE SortAcc(_, _, _)
SortAcc(acc, s, key) ==
    IF s = <<>> THEN acc
    ELSE SortAcc(Insert(Head(s), acc, key), Tail(s), key)

\* list.sort(key=...) / sorted(..., key=...): stable, ascending
Sorted(s, key) == SortAcc(<<>>, s, key)

\* list.remove(x): drops the first occurrence
RECURSIVE RemoveFirst(_, _)
RemoveFirst(s, x) ==
    IF s = <<>> THEN <<>>
    ELSE IF Head(s) = x THEN Tail(s)
    ELSE <<Head(s)>> \o RemoveFirst(Tail(s), x)

\* exact quotient a / b of Python's true division; den = 0 is ZeroDivisionError
Div(a, b) == [num |-> a, den |-> b]

Zero == [num |-> 0, den |-> 1]

RECURSIVE GCD(_, _)
GCD(a, b) == IF b = 0 THEN a ELSE GCD(b, a % b)

\* the quotient a / b in lowest terms, for a >= 0 and b > 0
Ratio(a, b) == LET g == GCD(a, b) IN [num |-> a \div g, den |-> b \div g]

\* x < y for quotients with positive denominators
RLess(x, y) == x.num * y.den < y.num * x.den

(* ---------------------------------------------------------------------- *)
(* Process                                                                *)
(* ---------------------------------------------------------------------- *)
\* Process(...) followed by __post_init__
NewProcess(pid, burst_time, priority, arrival_time, io_bound) ==
    [pid |-> pid, burst_time |-> burst_time, priority |-> priority,
     arrival_time |-> arrival_time, io_bound |-> io_bound,
     state |-> "NEW", remaining_time |-> burst_time, waiting_time |-> 0,
     turnaround_time |-> 0, response_time |-> -1, completion_time |-> 0,
     start_time |-> -1, queue_level |-> 0, aging_counter |-> 0]

\* a reset that only makes the process NEW again
ProcessResetStateOnly(p) == [p EXCEPT !.state = "NEW"]

\* Process.reset
ProcessReset(p) ==
    [p EXCEPT !.remaining_time = p.burst_time, !.waiting_time = 0,
              !.turnaround_time = 0, !.response_time = -1,
              !.completion_time = 0, !.start_time = -1, !.state = "NEW",
              !.queue_level = 0, !.aging_counter = 0]

\* calculate_process_metrics that takes the waiting time from the completion
\* time, as if every process arrived at time 0
CalculateProcessMetricsNoArrival(p) ==
    LET turnaround == p.completion_time - p.arrival_time
    IN [p EXCEPT !.turnaround_time = turnaround,
                 !.waiting_time = p.completion_time - p.burst_time]

\* BaseScheduler.calculate_process_metrics
CalculateProcessMetrics(p) ==
    LET turnaround == p.completion_time - p.arrival_time
    IN [p EXCEPT !.turnaround_time = turnaround,
                 !.waiting_time = turnaround - p.burst_time]

\* the sort key (arrival_time, pid) of every position of a process list
ArrivalKey(ps) == [i \in 1..Len(ps) |-> <<ps[i].arrival_time, ps[i].pid>>]

\* the positions of ps in list order
Positions(ps) == [i \in 1..Len(ps) |-> i]

\* the list of not yet arrived processes left in the caller's order
UnsortedByArrival(ps) == Positions(ps)

\* sorted(processes.copy(), key=lambda p: (p.arrival_time, p.pid))
SortedByArrival(ps) == Sorted(Positions(ps), ArrivalKey(ps))

\* an admission that takes the whole list, arrived or not
ArrivedPrefixAll(rem, ps, t) == rem

\* the longest prefix of rem whose processes have arrived by time t
RECURSIVE ArrivedPrefix(_, _, _)
ArrivedPrefix(rem, ps, t) ==
    IF rem # <<>> /\ ps[Head(rem)].arrival_time <= t
    THEN <<Head(rem)>> \o ArrivedPrefix(Tail(rem), ps, t)
    ELSE <<>>

\* [p for p in rem if p.arrival_time <= t]
RECURSIVE ArrivedIn(_, _, _)
ArrivedIn(rem, ps, t) ==
    IF rem = <<>> THEN <<>>
    ELSE IF ps[Head(rem)].arrival_time <= t
    THEN <<Head(rem)>> \o ArrivedIn(Tail(rem), ps, t)
    ELSE ArrivedIn(Tail(rem), ps, t)

\* rem after rem.remove(x) for every x of xs
RECURSIVE RemoveEach(_, _)
RemoveEach(rem, xs) ==
    IF xs = <<>> THEN rem
    ELSE RemoveEach(RemoveFirst(rem, Head(xs)), Tail(xs))

\* the positions, in list order, of the processes that are NEW and have
\* arrived by time t
RECURSIVE NewArrivedFrom(_, _, _)
NewArrivedFrom(i, ps, t) ==
    IF i > Len(ps) THEN <<>>
    ELSE IF ps[i].arrival_time <= t /\ ps[i].state = "NEW"
    THEN <<i>> \o NewArrivedFrom(i + 1, ps, t)
    ELSE NewArrivedFrom(i + 1, ps, t)

\* the arrival times of the processes that are still NEW
NewArrivals(ps) ==
    {ps[i].arrival_time : i \in {j \in 1..Len(ps) : ps[j].state = "NEW"}}

\* the arrival times after t of the processes that are still NEW
NewArrivalsAfter(ps, t) == {a \in NewArrivals(ps) : a > t}

\* an idle scheduler that does not advance its clock
NextArrivalStay(ps, rem) == current_time

\* an idle scheduler that sleeps past the next arrival
NextArrivalLate(ps, rem) == ps[Head(rem)].arrival_time + 1

\* remaining[0].arrival_time: the time an idle scheduler jumps to
NextArrival(ps, rem) == ps[Head(rem)].arrival_time

\* the processes of ps with the state of every position in S set to st
WithState(ps, S, st) ==
    [i \in 1..Len(ps) |-> IF i \in S THEN [ps[i] EXCEPT !.state = st] ELSE ps[i]]

(* ---------------------------------------------------------------------- *)
(* SchedulingResult                                                       *)
(* ---------------------------------------------------------------------- *)
NoResult ==
    [algorithm |-> "", processes |-> <<>>, gantt_chart |-> <<>>,
     context_switches |-> 0, total_time |-> 0,
     avg_waiting_time |-> Zero, avg_turnaround_time |-> Zero,
     avg_response_time |-> Zero, avg_completion_time |-> Zero,
     cpu_utilization |-> Zero, throughput |-> Zero]

\* SchedulingResult.calculate_metrics behind its guard on the empty list
ComputeMetrics(r) ==
    LET ps == r.processes
        n == Len(ps)
        total_waiting == SumSeq([i \in 1..n |-> ps[i].waiting_time])
        total_turnaround == SumSeq([i \in 1..n |-> ps[i].turnaround_time])
        total_response ==
            SumSeq([i \in 1..n |-> IF ps[i].response_time >= 0
                                   THEN ps[i].response_time ELSE 0])
        total_completion == SumSeq([i \in 1..n |-> ps[i].completion_time])
        busy_time == SumSeq([i \in 1..n |-> ps[i].burst_time])
        r1 == [r EXCEPT !.avg_waiting_time = Div(total_waiting, n),
                        !.avg_turnaround_time = Div(total_turnaround, n),
                        !.avg_response_time =
                            IF n > 0 THEN Div(total_response, n) ELSE Zero,
                        !.avg_completion_time = Div(total_completion, n)]
    IN IF r.total_time > 0
       THEN [r1 EXCEPT !.cpu_utilization = Div(busy_time * 100, r.total_time),
                       !.throughput = Div(n * 1000, r.total_time)]
       ELSE r1

\* calculate_metrics without the guard on the empty list
CalculateMetricsUnguarded(r) == ComputeMetrics(r)

\* SchedulingResult.calculate_metrics
CalculateMetrics(r) ==
    IF r.processes = <<>> THEN r ELSE ComputeMetrics(r)

\* a division by zero happened while the metrics were computed
MetricsRaised(r) ==
    \/ r.avg_waiting_time.den = 0
    \/ r.avg_turnaround_time.den = 0
    \/ r.avg_response_time.den = 0
    \/ r.avg_completion_time.den = 0
    \/ r.cpu_utilization.den = 0
    \/ r.throughput.den = 0

\* the display name a scheduler instance is constructed with
SchedulerName ==
    CASE algorithm = "FCFS" -> "FCFS"
      [] algorithm = "SJF" -> "SJF"
      [] algorithm = "Priority" -> "Priority (Non-Preemptive)"
      [] algorithm = "SRTF" -> "SRTF"
      [] algorithm = "RR" -> "Round Robin"
      [] algorithm = "PreemptivePriority" -> "Priority (Preemptive with Aging)"
      [] algorithm = "MLFQ" -> "MLFQ"

\* a result whose total_time is the time the CPU was busy
CreateResultBusyTime ==
    CalculateMetrics(
        [algorithm |-> SchedulerName, processes |-> processes,
         gantt_chart |-> gantt_chart, context_switches |-> context_switches,
         total_time |->
             SumSeq([k \in 1..Len(gantt_chart) |->
                        gantt_chart[k][3] - gantt_chart[k][2]]),
         avg_waiting_time |-> Zero, avg_turnaround_time |-> Zero,
         avg_response_time |-> Zero, avg_completion_time |-> Zero,
         cpu_utilization |-> Zero, throughput |-> Zero])

\* BaseScheduler.create_result
CreateResult ==
    CalculateMetrics(
        [algorithm |-> SchedulerName, processes |-> processes,
         gantt_chart |-> gantt_chart, context_switches |-> context_switches,
         total_time |-> current_time,
         avg_waiting_time |-> Zero, avg_turnaround_time |-> Zero,
         avg_response_time |-> Zero, avg_completion_time |-> Zero,
         cpu_utilization |-> Zero, throughput |-> Zero])

(* ---------------------------------------------------------------------- *)
(* Construction                                                           *)
(* ---------------------------------------------------------------------- *)
Algorithms ==
    {"FCFS", "SJF", "Priority", "SRTF", "RR", "PreemptivePriority", "MLFQ"}

DefaultConfig ==
    [algorithm |-> "FCFS", time_quantum |-> DefaultTimeQuantum,
     aging_interval |-> DefaultAgingInterval,
     aging_amount |-> DefaultAgingAmount,
     time_quantums |-> DefaultTimeQuantums,
     boost_interval |-> DefaultBoostInterval]

\* the constructor arguments explored: the defaults and small positive values
Configs ==
    {[DefaultConfig EXCEPT !.algorithm = a] : a \in Algorithms}
    \cup {[DefaultConfig EXCEPT !.algorithm = "RR", !.time_quantum = 2]}
    \cup {[DefaultConfig EXCEPT !.algorithm = "PreemptivePriority",
                                !.aging_interval = 2]}
    \cup {[DefaultConfig EXCEPT !.algorithm = "PreemptivePriority",
                                !.aging_interval = 1]}
    \cup {[DefaultConfig EXCEPT !.algorithm = "MLFQ",
                                !.time_quantums = <<1, 1, 0>>,
                                !.boost_interval = 3]}
    \cup {[DefaultConfig EXCEPT !.algorithm = "MLFQ",
                                !.time_quantums = <<1, 2, 0>>]}

\* process lists with pids 1..n in list order
ProcessLists ==
    UNION {
      {[i \in 1..n |-> NewProcess(i, bu[i], pr[i], ar[i], FALSE)] :
          ar \in [1..n -> 0..MaxArrival],
          bu \in [1..n -> 1..MaxBurst],
          pr \in [1..n -> 0..MaxPriority]} : n \in 0..MaxProcs}

\* the documented scenarios: FCFS on P1(0,5), P2(1,3), P3(2,8); SRTF on
\* P1(0,8), P2(1,4); Round Robin with quantum 4 on P1(0,5), P2(0,3)
ScenarioA ==
    <<NewProcess(1, 5, 0, 0, FALSE), NewProcess(2, 3, 0, 1, FALSE),
      NewProcess(3, 8, 0, 2, FALSE)>>

ScenarioB == <<NewProcess(1, 8, 0, 0, FALSE), NewProcess(2, 4, 0, 1, FALSE)>>

ScenarioC == <<NewProcess(1, 5, 0, 0, FALSE), NewProcess(2, 3, 0, 0, FALSE)>>

\* a short, urgent job that arrives last while a long job runs and another
\* one waits
LateShortJob ==
    <<NewProcess(1, 3, 0, 0, FALSE), NewProcess(2, 3, 1, 1, FALSE),
      NewProcess(3, 1, 0, 2, FALSE)>>

\* a long job that has sunk to the lowest level when a short job arrives
LongJobLateArrival ==
    <<NewProcess(1, 4, 0, 0, FALSE), NewProcess(2, 1, 0, 3, FALSE)>>

\* a long job that runs to completion on the lowest level while a short
\* job waits there
LongAndShort ==
    <<NewProcess(1, 1000, 0, 0, FALSE), NewProcess(2, 30, 0, 0, FALSE)>>

Scenarios ==
    {[config |-> [DefaultConfig EXCEPT !.algorithm = "SJF"],
      processes |-> LateShortJob],
     [config |-> [DefaultConfig EXCEPT !.algorithm = "MLFQ"],
      processes |-> LongAndShort],
     [config |-> [DefaultConfig EXCEPT !.algorithm = "MLFQ"],
      processes |-> ScenarioB],
     [config |-> [DefaultConfig EXCEPT !.algorithm = "MLFQ",
                                       !.time_quantums = <<1, 1, 0>>],
      processes |-> LongJobLateArrival],
     [config |-> [DefaultConfig EXCEPT !.algorithm = "MLFQ",
                                       !.time_quantums = <<1, 1>>],
      processes |-> LongJobLateArrival],
     [config |-> [DefaultConfig EXCEPT !.algorithm = "Priority"],
      processes |-> LateShortJob],
     [config |-> DefaultConfig, processes |-> ScenarioA],
     [config |-> [DefaultConfig EXCEPT !.algorithm = "SRTF"],
      processes |-> ScenarioB],
     [config |-> [DefaultConfig EXCEPT !.algorithm = "RR", !.time_quantum = 4],
      processes |-> ScenarioC]}

\* a freshly constructed scheduler of the class the estimate names
NewScheduler(key, quantum) ==
    [algorithm |-> key,
     time_quantum |-> IF key = "RR" THEN quantum ELSE DefaultTimeQuantum,
     ready_queue |-> <<>>, current_time |-> 0, gantt_chart |-> <<>>,
     context_switches |-> 0, running_process |-> None]

NoRecommendation ==
    [scheduler |-> NewScheduler("", 0), algorithm_name |-> "",
     expected_avg_wait |-> [num |-> 0, den |-> 1, penalized |-> FALSE],
     confidence |-> Zero]

\* SharedCounter.__init__ (mutex 0: the lock is free)
NewCounter == [value |-> 0, mutex |-> 0, operations |-> 0]

NoRaceResult ==
    [test_type |-> "", num_threads |-> 0, increments_per_thread |-> 0,
     expected_value |-> 0, actual_value |-> 0, race_detected |-> FALSE,
     lost_updates |-> 0]

\* no race-condition demo has been started
NoDemo ==
    /\ test_type = ""
    /\ num_threads = 0
    /\ increments = 0
    /\ counter = NewCounter
    /\ threads = <<>>
    /\ joined = 0
    /\ demo_pc = "idle"
    /\ race_result = NoRaceResult

\* the processes of the deadlock scenario and the resource ids of
\* ResourceManager._init_default_resources
EngineProcs == 4
ResourceIds == 1..4

\* Resource(rid, name, type, total_instances) after __post_init__
NewResource(name, total_instances) ==
    [name |-> name, total_instances |-> total_instances,
     available_instances |-> total_instances,
     allocated_to |-> [q \in 1..EngineProcs |-> 0], waiting_queue |-> <<>>]

\* ResourceManager._init_default_resources
DefaultResources ==
    <<NewResource("CPU", 4), NewResource("Memory", 16),
      NewResource("Printer", 2), NewResource("Disk", 4)>>

NoDeadlockReport ==
    [called |-> FALSE, detected |-> FALSE, processes |-> {},
     resources |-> {}, cycle |-> <<>>]

\* SimulationEngine.__init__ followed by n calls of create_process: the
\* resource manager has its default resources, the graph has the process
\* nodes only
EngineWith(n) ==
    /\ resources = DefaultResources
    /\ process_resources =
          [q \in 1..n |-> [allocated_resources |-> [r \in ResourceIds |-> 0],
                           requested_resources |-> [r \in ResourceIds |-> 0]]]
    /\ rag = [process_nodes |-> 1..n,
              resource_nodes |->
                  [r \in ResourceIds |->
                      [present |-> FALSE, available_instances |-> 0]],
              edges |-> <<>>]
    /\ allocation_history = <<>>
    /\ deadlock_report = NoDeadlockReport

\* a scheduler freshly constructed with arguments c, and the fresh processes ps
SchedulerWith(c, ps) ==
    /\ algorithm = c.algorithm
    /\ time_quantum = c.time_quantum
    /\ aging_interval = c.aging_interval
    /\ aging_amount = c.aging_amount
    /\ time_quantums = c.time_quantums
    /\ boost_interval = c.boost_interval
    /\ processes = ps
    /\ pc = "idle"
    /\ ready_queue = <<>>
    /\ circular_queue = <<>>
    /\ queues = [l \in 1..Len(c.time_quantums) |-> <<>>]
    /\ current_time = 0
    /\ gantt_chart = <<>>
    /\ context_switches = 0
    /\ running_process = None
    /\ remaining = <<>>
    /\ completed_count = 0
    /\ last_aging_time = 0
    /\ last_boost_time = 0
    /\ current_level = 0
    /\ iterations = 0
    /\ result = NoResult
    /\ recommendation = NoRecommendation
    /\ history = <<>>

InitWith(c, ps) == NoDemo /\ EngineWith(0) /\ SchedulerWith(c, ps)

Init ==
    \/ \E c \in Configs : \E ps \in ProcessLists : InitWith(c, ps)
    \/ \E sc \in Scenarios : InitWith(sc.config, sc.processes)

(* ---------------------------------------------------------------------- *)
(* Scheduler contract                                                     *)
(* ---------------------------------------------------------------------- *)
\* the effect of BaseScheduler.reset on the base fields, followed by
\* p.reset() for every process; the locals start as the caller leaves them
ResetAll ==
    /\ ready_queue' = <<>>
    /\ current_time' = 0
    /\ gantt_chart' = <<>>
    /\ context_switches' = 0
    /\ running_process' = None
    /\ processes' = [i \in 1..Len(processes) |-> ProcessReset(processes[i])]

\* a response time that is the dispatch time itself
WithResponseNoArrival(p, t) ==
    IF p.response_time = -1
    THEN [p EXCEPT !.response_time = t]
    ELSE p

\* a response time recorded anew on every dispatch
WithResponseEveryDispatch(p, t) ==
    [p EXCEPT !.response_time = t - p.arrival_time]

\* the first dispatch of a process records its response time
WithResponse(p, t) ==
    IF p.response_time = -1
    THEN [p EXCEPT !.response_time = t - p.arrival_time]
    ELSE p

(* ---------------------------------------------------------------------- *)
(* FCFS                                                                   *)
(* ---------------------------------------------------------------------- *)
FCFSKey(ps) == ArrivalKey(ps)

\* FCFSScheduler.schedule, up to the main loop
FCFSSchedule ==
    /\ pc = "idle"
    /\ algorithm = "FCFS"
    /\ iterations' = 0
    /\ ResetAll
    /\ remaining' = SortedByArrival(processes')
    /\ pc' = "loop"
    /\ UNCHANGED <<configVars, history, syncVars, engineVars, circular_queue, queues, completed_count,
                   last_aging_time, last_boost_time, current_level, result,
                   recommendation>>

\* one pass of the loop head: admission, idle jump, selection, dispatch
FCFSDispatch ==
    /\ pc = "loop"
    /\ algorithm = "FCFS"
    /\ iterations' = iterations + 1
    /\ remaining # <<>> \/ ready_queue # <<>>
    /\ LET arrived == ArrivedPrefix(remaining, processes, current_time)
           rem1 == SubSeq(remaining, Len(arrived) + 1, Len(remaining))
           ps1 == WithState(processes, Range(arrived), "READY")
           rq1 == ready_queue \o arrived
       IN IF rq1 = <<>>
          THEN /\ remaining' = rem1
               /\ processes' = ps1
               /\ ready_queue' = rq1
               /\ IF rem1 # <<>>
                  THEN /\ current_time' = NextArrival(ps1, rem1)
                       /\ pc' = "loop"
                  ELSE /\ current_time' = current_time
                       /\ pc' = "exit"
               /\ UNCHANGED running_process
          ELSE LET sorted == Sorted(rq1, FCFSKey(ps1))
                   process == Head(sorted)
               IN /\ remaining' = rem1
                  /\ ready_queue' = RemoveFirst(sorted, process)
                  /\ processes' =
                       [ps1 EXCEPT ![process] =
                          [WithResponse(ps1[process], current_time)
                             EXCEPT !.state = "RUNNING",
                                    !.start_time = current_time]]
                  /\ running_process' = process
                  /\ pc' = "run"
                  /\ UNCHANGED current_time
    /\ UNCHANGED <<configVars, history, syncVars, engineVars, circular_queue, queues, gantt_chart,
                   context_switches, completed_count, last_aging_time,
                   last_boost_time, current_level, result, recommendation>>

\* execution of the dispatched process for its full burst, and completion
FCFSRun ==
    /\ pc = "run"
    /\ algorithm = "FCFS"
    /\ UNCHANGED iterations
    /\ LET process == running_process
           p == processes[process]
           start_time == current_time
           end_time == current_time + p.burst_time
       IN /\ current_time' = end_time
          /\ gantt_chart' = Append(gantt_chart, <<p.pid, start_time, end_time>>)
          /\ processes' =
               [processes EXCEPT ![process] =
                  CalculateProcessMetrics(
                     [p EXCEPT !.remaining_time = 0,
                               !.completion_time = end_time,
                               !.state = "TERMINATED"])]
    /\ context_switches' =
         IF remaining # <<>> \/ ready_queue # <<>>
         THEN context_switches + 1 ELSE context_switches
    /\ running_process' = None
    /\ pc' = "loop"
    /\ UNCHANGED <<configVars, history, syncVars, engineVars, ready_queue, circular_queue, queues, remaining,
                   completed_count, last_aging_time, last_boost_time,
                   current_level, result, recommendation>>

(* ---------------------------------------------------------------------- *)
(* SJF                                                                    *)
(* ---------------------------------------------------------------------- *)
\* the key of a scheduler that ignores the burst time
SJFKeyArrivalOnly(ps) ==
    [i \in 1..Len(ps) |-> <<ps[i].arrival_time, ps[i].pid>>]

\* the sort key of SJFScheduler.select_next
SJFKey(ps) ==
    [i \in 1..Len(ps) |-> <<ps[i].burst_time, ps[i].arrival_time, ps[i].pid>>]

\* SJFScheduler.schedule, up to the main loop
SJFSchedule ==
    /\ pc = "idle"
    /\ algorithm = "SJF"
    /\ iterations' = 0
    /\ ResetAll
    /\ remaining' = SortedByArrival(processes')
    /\ pc' = "loop"
    /\ UNCHANGED <<configVars, history, syncVars, engineVars, circular_queue, queues, completed_count,
                   last_aging_time, last_boost_time, current_level, result,
                   recommendation>>

\* one pass of the loop head: admission, idle jump, selection, dispatch
SJFDispatch ==
    /\ pc = "loop"
    /\ algorithm = "SJF"
    /\ iterations' = iterations + 1
    /\ remaining # <<>> \/ ready_queue # <<>>
    /\ LET arrived == ArrivedIn(remaining, processes, current_time)
           rem1 == RemoveEach(remaining, arrived)
           ps1 == WithState(processes, Range(arrived), "READY")
           rq1 == ready_queue \o arrived
       IN IF rq1 = <<>>
          THEN /\ remaining' = rem1
               /\ processes' = ps1
               /\ ready_queue' = rq1
               /\ IF rem1 # <<>>
                  THEN /\ current_time' = NextArrival(ps1, rem1)
                       /\ pc' = "loop"
                  ELSE /\ current_time' = current_time
                       /\ pc' = "exit"
               /\ UNCHANGED running_process
          ELSE LET sorted == Sorted(rq1, SJFKey(ps1))
                   process == Head(sorted)
               IN /\ remaining' = rem1
                  /\ ready_queue' = RemoveFirst(sorted, process)
                  /\ processes' =
                       [ps1 EXCEPT ![process] =
                          [WithResponse(ps1[process], current_time)
                             EXCEPT !.state = "RUNNING",
                                    !.start_time = current_time]]
                  /\ running_process' = process
                  /\ pc' = "run"
                  /\ UNCHANGED current_time
    /\ UNCHANGED <<configVars, history, syncVars, engineVars, circular_queue, queues, gantt_chart,
                   context_switches, completed_count, last_aging_time,
                   last_boost_time, current_level, result, recommendation>>

\* execution of the dispatched process for its full burst, and completion
SJFRun ==
    /\ pc = "run"
    /\ algorithm = "SJF"
    /\ UNCHANGED iterations
    /\ LET process == running_process
           p == processes[process]
           start_time == current_time
           end_time == current_time + p.burst_time
       IN /\ current_time' = end_time
          /\ gantt_chart' = Append(gantt_chart, <<p.pid, start_time, end_time>>)
          /\ processes' =
               [processes EXCEPT ![process] =
                  CalculateProcessMetrics(
                     [p EXCEPT !.remaining_time = 0,
                               !.completion_time = end_time,
                               !.state = "TERMINATED"])]
    /\ context_switches' =
         IF remaining # <<>> \/ ready_queue # <<>>
         THEN context_switches + 1 ELSE context_switches
    /\ running_process' = None
    /\ pc' = "loop"
    /\ UNCHANGED <<configVars, history, syncVars, engineVars, ready_queue, circular_queue, queues, remaining,
                   completed_count, last_aging_time, last_boost_time,
                   current_level, result, recommendation>>

(* ---------------------------------------------------------------------- *)
(* Priority (non-preemptive)                                              *)
(* ---------------------------------------------------------------------- *)
PriorityKey(ps) ==
    [i \in 1..Len(ps) |-> <<ps[i].priority, ps[i].arrival_time, ps[i].pid>>]

\* PriorityScheduler.schedule, up to the main loop
PrioritySchedule ==
    /\ pc = "idle"
    /\ algorithm = "Priority"
    /\ iterations' = 0
    /\ ResetAll
    /\ remaining' = SortedByArrival(processes')
    /\ pc' = "loop"
    /\ UNCHANGED <<configVars, history, syncVars, engineVars, circular_queue, queues, completed_count,
                   last_aging_time, last_boost_time, current_level, result,
                   recommendation>>

\* one pass of the loop head: admission, idle jump, selection, dispatch
PriorityDispatch ==
    /\ pc = "loop"
    /\ algorithm = "Priority"
    /\ iterations' = iterations + 1
    /\ remaining # <<>> \/ ready_queue # <<>>
    /\ LET arrived == ArrivedIn(remaining, processes, current_time)
           rem1 == RemoveEach(remaining, arrived)
           ps1 == WithState(processes, Range(arrived), "READY")
           rq1 == ready_queue \o arrived
       IN IF rq1 = <<>>
          THEN /\ remaining' = rem1
               /\ processes' = ps1
               /\ ready_queue' = rq1
               /\ IF rem1 # <<>>
                  THEN /\ current_time' = NextArrival(ps1, rem1)
                       /\ pc' = "loop"
                  ELSE /\ current_time' = current_time
                       /\ pc' = "exit"
               /\ UNCHANGED running_process
          ELSE LET sorted == Sorted(rq1, PriorityKey(ps1))
                   process == Head(sorted)
               IN /\ remaining' = rem1
                  /\ ready_queue' = RemoveFirst(sorted, process)
                  /\ processes' =
                       [ps1 EXCEPT ![process] =
                          [WithResponse(ps1[process], current_time)
                             EXCEPT !.state = "RUNNING",
                                    !.start_time = current_time]]
                  /\ running_process' = process
                  /\ pc' = "run"
                  /\ UNCHANGED current_time
    /\ UNCHANGED <<configVars, history, syncVars, engineVars, circular_queue, queues, gantt_chart,
                   context_switches, completed_count, last_aging_time,
                   last_boost_time, current_level, result, recommendation>>

\* execution of the dispatched process for its full burst, and completion
PriorityRun ==
    /\ pc = "run"
    /\ algorithm = "Priority"
    /\ UNCHANGED iterations
    /\ LET process == running_process
           p == processes[process]
           start_time == current_time
           end_time == current_time + p.burst_time
       IN /\ current_time' = end_time
          /\ gantt_chart' = Append(gantt_chart, <<p.pid, start_time, end_time>>)
          /\ processes' =
               [processes EXCEPT ![process] =
                  CalculateProcessMetrics(
                     [p EXCEPT !.remaining_time = 0,
                               !.completion_time = end_time,
                               !.state = "TERMINATED"])]
    /\ context_switches' =
         IF remaining # <<>> \/ ready_queue # <<>>
         THEN context_switches + 1 ELSE context_switches
    /\ running_process' = None
    /\ pc' = "loop"
    /\ UNCHANGED <<configVars, history, syncVars, engineVars, ready_queue, circular_queue, queues, remaining,
                   completed_count, last_aging_time, last_boost_time,
                   current_level, result, recommendation>>

(* ---------------------------------------------------------------------- *)
(* SRTF                                                                   *)
(* ---------------------------------------------------------------------- *)
\* the key of SJF: the burst time in place of the remaining time
SRTFKeyBurst(ps) ==
    [i \in 1..Len(ps) |-> <<ps[i].burst_time, ps[i].arrival_time, ps[i].pid>>]

\* a key that leaves ties in remaining and arrival time to the list order
SRTFKeyNoPid(ps) ==
    [i \in 1..Len(ps) |-> <<ps[i].remaining_time, ps[i].arrival_time>>]

\* the sort key of SRTFScheduler.select_next
SRTFKey(ps) ==
    [i \in 1..Len(ps) |-> <<ps[i].remaining_time, ps[i].arrival_time, ps[i].pid>>]

\* a preemption that forgets the time the process has run
PreemptedUncharged(p, run_time) == [p EXCEPT !.state = "READY"]

\* SRTFScheduler.schedule: the process after a run that an arrival ends
Preempted(p, run_time) ==
    [p EXCEPT !.remaining_time = p.remaining_time - run_time,
              !.state = "READY"]

\* SRTFScheduler.schedule, up to the main loop
SRTFSchedule ==
    /\ pc = "idle"
    /\ algorithm = "SRTF"
    /\ iterations' = 0
    /\ ResetAll
    /\ completed_count' = 0
    /\ pc' = "loop"
    /\ UNCHANGED <<configVars, history, syncVars, engineVars, circular_queue, queues, remaining,
                   last_aging_time, last_boost_time, current_level, result,
                   recommendation>>

\* one pass of the loop head: admission, idle jump, selection, dispatch
SRTFDispatch ==
    /\ pc = "loop"
    /\ algorithm = "SRTF"
    /\ iterations' = iterations + 1
    /\ completed_count < Len(processes)
    /\ LET arrived == NewArrivedFrom(1, processes, current_time)
           ps1 == WithState(processes, Range(arrived), "READY")
           rq1 == ready_queue \o arrived
       IN IF rq1 = <<>>
          THEN /\ processes' = ps1
               /\ ready_queue' = rq1
               /\ IF NewArrivals(ps1) # {}
                  THEN /\ current_time' = SetMin(NewArrivals(ps1))
                       /\ pc' = "loop"
                  ELSE /\ current_time' = current_time
                       /\ pc' = "exit"
               /\ UNCHANGED <<running_process, context_switches>>
          ELSE LET sorted == Sorted(rq1, SRTFKey(ps1))
                   process == Head(sorted)
                   ps2 == [ps1 EXCEPT ![process] =
                              WithResponse(ps1[process], current_time)]
               IN /\ IF running_process # process
                     THEN /\ context_switches' =
                               IF running_process # None
                               THEN context_switches + 1 ELSE context_switches
                          /\ processes' =
                               [ps2 EXCEPT ![process].state = "RUNNING"]
                          /\ ready_queue' = RemoveFirst(sorted, process)
                     ELSE /\ context_switches' = context_switches
                          /\ processes' = ps2
                          /\ ready_queue' = sorted
                  /\ running_process' = process
                  /\ pc' = "run"
                  /\ UNCHANGED current_time
    /\ UNCHANGED <<configVars, history, syncVars, engineVars, circular_queue, queues, gantt_chart, remaining,
                   completed_count, last_aging_time, last_boost_time,
                   current_level, result, recommendation>>

\* execution up to the next arrival or to completion
SRTFRun ==
    /\ pc = "run"
    /\ algorithm = "SRTF"
    /\ UNCHANGED iterations
    /\ LET process == running_process
           p == processes[process]
           arrivals == NewArrivalsAfter(processes, current_time)
           completion_time == current_time + p.remaining_time
           start_time == current_time
       IN IF arrivals # {} /\ SetMin(arrivals) < completion_time
          THEN LET next_arrival == SetMin(arrivals)
                   run_time == next_arrival - current_time
               IN /\ current_time' = next_arrival
                  /\ gantt_chart' =
                       Append(gantt_chart, <<p.pid, start_time, next_arrival>>)
                  /\ processes' =
                       [processes EXCEPT ![process] = Preempted(p, run_time)]
                  /\ ready_queue' = Append(ready_queue, process)
                  /\ UNCHANGED completed_count
          ELSE /\ current_time' = completion_time
               /\ gantt_chart' =
                    Append(gantt_chart, <<p.pid, start_time, completion_time>>)
               /\ processes' =
                    [processes EXCEPT ![process] =
                       CalculateProcessMetrics(
                          [p EXCEPT !.remaining_time = 0,
                                    !.completion_time = completion_time,
                                    !.state = "TERMINATED"])]
               /\ completed_count' = completed_count + 1
               /\ UNCHANGED ready_queue
    /\ running_process' = None
    /\ pc' = "loop"
    /\ UNCHANGED <<configVars, history, syncVars, engineVars, circular_queue, queues, context_switches,
                   remaining, last_aging_time, last_boost_time, current_level,
                   result, recommendation>>

(* ---------------------------------------------------------------------- *)
(* Priority (preemptive with aging)                                       *)
(* ---------------------------------------------------------------------- *)
\* the key of a scheduler that ignores aging
PreemptivePriorityKeyNoAging(ps) ==
    [i \in 1..Len(ps) |-> <<ps[i].priority, ps[i].arrival_time, ps[i].pid>>]

\* the sort key of PreemptivePriorityScheduler.select_next
PreemptivePriorityKey(ps) ==
    [i \in 1..Len(ps) |->
        <<ps[i].priority - ps[i].aging_counter, ps[i].arrival_time, ps[i].pid>>]

\* PreemptivePriorityScheduler.apply_aging
ApplyAging(ps, rq) ==
    [i \in 1..Len(ps) |->
        IF i \in Range(rq)
        THEN [ps[i] EXCEPT !.aging_counter = ps[i].aging_counter + aging_amount]
        ELSE ps[i]]

\* PreemptivePriorityScheduler.schedule, up to the main loop
PreemptivePrioritySchedule ==
    /\ pc = "idle"
    /\ algorithm = "PreemptivePriority"
    /\ iterations' = 0
    /\ ResetAll
    /\ completed_count' = 0
    /\ last_aging_time' = 0
    /\ pc' = "loop"
    /\ UNCHANGED <<configVars, history, syncVars, engineVars, circular_queue, queues, remaining,
                   last_boost_time, current_level, result, recommendation>>

\* one pass of the loop head: admission, aging, idle jump, selection, dispatch
PreemptivePriorityDispatch ==
    /\ pc = "loop"
    /\ algorithm = "PreemptivePriority"
    /\ iterations' = iterations + 1
    /\ completed_count < Len(processes)
    /\ LET arrived == NewArrivedFrom(1, processes, current_time)
           ps1 == WithState(processes, Range(arrived), "READY")
           rq1 == ready_queue \o arrived
           aging == current_time - last_aging_time >= aging_interval
           ps2 == IF aging THEN ApplyAging(ps1, rq1) ELSE ps1
       IN /\ last_aging_time' = IF aging THEN current_time ELSE last_aging_time
          /\ IF rq1 = <<>>
             THEN /\ processes' = ps2
                  /\ ready_queue' = rq1
                  /\ IF NewArrivals(ps2) # {}
                     THEN /\ current_time' = SetMin(NewArrivals(ps2))
                          /\ pc' = "loop"
                     ELSE /\ current_time' = current_time
                          /\ pc' = "exit"
                  /\ UNCHANGED <<running_process, context_switches>>
             ELSE LET sorted == Sorted(rq1, PreemptivePriorityKey(ps2))
                      process == Head(sorted)
                      ps3 == [ps2 EXCEPT ![process] =
                                 WithResponse(ps2[process], current_time)]
                  IN /\ IF running_process # process
                        THEN /\ context_switches' =
                                  IF running_process # None
                                  THEN context_switches + 1
                                  ELSE context_switches
                             /\ processes' =
                                  [ps3 EXCEPT ![process].state = "RUNNING"]
                             /\ ready_queue' = RemoveFirst(sorted, process)
                        ELSE /\ context_switches' = context_switches
                             /\ processes' = ps3
                             /\ ready_queue' = sorted
                     /\ running_process' = process
                     /\ pc' = "run"
                     /\ UNCHANGED current_time
    /\ UNCHANGED <<configVars, history, syncVars, engineVars, circular_queue, queues, gantt_chart, remaining,
                   completed_count, last_boost_time, current_level, result,
                   recommendation>>

\* execution up to the next arrival, the next aging tick or completion
PreemptivePriorityRun ==
    /\ pc = "run"
    /\ algorithm = "PreemptivePriority"
    /\ UNCHANGED iterations
    /\ LET process == running_process
           p == processes[process]
           arrivals == NewArrivalsAfter(processes, current_time)
           next_aging == last_aging_time + aging_interval
           completion_time == current_time + p.remaining_time
           next_event == SetMin(arrivals \cup {next_aging, completion_time})
           run_time == next_event - current_time
           start_time == current_time
           left == p.remaining_time - run_time
       IN /\ current_time' = next_event
          /\ gantt_chart' =
               IF run_time > 0
               THEN Append(gantt_chart, <<p.pid, start_time, next_event>>)
               ELSE gantt_chart
          /\ IF left <= 0
             THEN /\ processes' =
                       [processes EXCEPT ![process] =
                          CalculateProcessMetrics(
                             [p EXCEPT !.remaining_time = 0,
                                       !.completion_time = next_event,
                                       !.state = "TERMINATED"])]
                  /\ completed_count' = completed_count + 1
                  /\ running_process' = None
                  /\ UNCHANGED ready_queue
             ELSE IF \/ arrivals # {} /\ next_event = SetMin(arrivals)
                     \/ next_event = next_aging
             THEN /\ processes' =
                       [processes EXCEPT ![process] =
                          [p EXCEPT !.remaining_time = left, !.state = "READY"]]
                  /\ ready_queue' = Append(ready_queue, process)
                  /\ running_process' = None
                  /\ UNCHANGED completed_count
             ELSE /\ processes' =
                       [processes EXCEPT ![process].remaining_time = left]
                  /\ UNCHANGED <<ready_queue, running_process, completed_count>>
    /\ pc' = "loop"
    /\ UNCHANGED <<configVars, history, syncVars, engineVars, circular_queue, queues, context_switches,
                   remaining, last_aging_time, last_boost_time, current_level,
                   result, recommendation>>

(* ---------------------------------------------------------------------- *)
(* Round Robin                                                            *)
(* ---------------------------------------------------------------------- *)
\* a dispatch that always lasts a full quantum
RoundRobinRunTimeFullQuantum(p) == time_quantum

\* the length of one Round Robin dispatch
RoundRobinRunTime(p) == Min2(time_quantum, p.remaining_time)

\* the queue served from its tail
RoundRobinTail(cq) == cq[Len(cq)]

\* circular_queue.popleft(): the process dispatched next
RoundRobinHead(cq) == Head(cq)

\* the just-run process re-queued ahead of the new arrivals
RequeueBeforeArrivals(cq, arrived, process, incomplete) ==
    IF incomplete THEN Append(cq, process) \o arrived ELSE cq \o arrived

\* the just-run process re-queued at the front of the queue
RequeueInFront(cq, arrived, process, incomplete) ==
    IF incomplete THEN <<process>> \o cq \o arrived ELSE cq \o arrived

\* the queue after a run: the new arrivals are appended, then the just-run
\* process if it is not complete
Requeue(cq, arrived, process, incomplete) ==
    IF incomplete THEN Append(cq \o arrived, process) ELSE cq \o arrived

\* RoundRobinScheduler.schedule, up to the main loop
RoundRobinSchedule ==
    /\ pc = "idle"
    /\ algorithm = "RR"
    /\ iterations' = 0
    /\ ResetAll
    /\ circular_queue' = <<>>
    /\ remaining' = SortedByArrival(processes')
    /\ completed_count' = 0
    /\ pc' = "loop"
    /\ UNCHANGED <<configVars, history, syncVars, engineVars, queues, last_aging_time, last_boost_time,
                   current_level, result, recommendation>>

\* one pass of the loop head: admission, idle jump, dispatch of the head
RoundRobinDispatch ==
    /\ pc = "loop"
    /\ algorithm = "RR"
    /\ iterations' = iterations + 1
    /\ completed_count < Len(processes)
    /\ LET arrived == ArrivedPrefix(remaining, processes, current_time)
           rem1 == SubSeq(remaining, Len(arrived) + 1, Len(remaining))
           ps1 == WithState(processes, Range(arrived), "READY")
           cq1 == circular_queue \o arrived
       IN /\ remaining' = rem1
          /\ IF cq1 = <<>>
             THEN /\ processes' = ps1
                  /\ circular_queue' = cq1
                  /\ IF rem1 # <<>>
                     THEN /\ current_time' = NextArrival(ps1, rem1)
                          /\ pc' = "loop"
                     ELSE /\ current_time' = current_time
                          /\ pc' = "exit"
                  /\ UNCHANGED running_process
             ELSE LET process == RoundRobinHead(cq1)
                  IN /\ circular_queue' = RemoveFirst(cq1, process)
                     /\ processes' =
                          [ps1 EXCEPT ![process] =
                             [WithResponse(ps1[process], current_time)
                                EXCEPT !.state = "RUNNING"]]
                     /\ running_process' = process
                     /\ pc' = "run"
                     /\ UNCHANGED current_time
    /\ UNCHANGED <<configVars, history, syncVars, engineVars, ready_queue, queues, gantt_chart,
                   context_switches, completed_count, last_aging_time,
                   last_boost_time, current_level, result, recommendation>>

\* execution for one quantum at most, admission of the arrivals, then
\* re-queueing or completion
RoundRobinRun ==
    /\ pc = "run"
    /\ algorithm = "RR"
    /\ UNCHANGED iterations
    /\ LET process == running_process
           p == processes[process]
           run_time == RoundRobinRunTime(p)
           start_time == current_time
           end_time == current_time + run_time
           left == p.remaining_time - run_time
           arrived == ArrivedPrefix(remaining, processes, end_time)
           rem1 == SubSeq(remaining, Len(arrived) + 1, Len(remaining))
           ps1 == WithState(processes, Range(arrived), "READY")
           incomplete == left > 0
           cq2 == Requeue(circular_queue, arrived, process, incomplete)
       IN /\ current_time' = end_time
          /\ gantt_chart' = Append(gantt_chart, <<p.pid, start_time, end_time>>)
          /\ remaining' = rem1
          /\ circular_queue' = cq2
          /\ IF incomplete
             THEN /\ processes' =
                       [ps1 EXCEPT ![process] =
                          [p EXCEPT !.remaining_time = left, !.state = "READY"]]
                  /\ UNCHANGED completed_count
             ELSE /\ processes' =
                       [ps1 EXCEPT ![process] =
                          CalculateProcessMetrics(
                             [p EXCEPT !.remaining_time = left,
                                       !.completion_time = end_time,
                                       !.state = "TERMINATED"])]
                  /\ completed_count' = completed_count + 1
          /\ context_switches' =
               IF cq2 # <<>> \/ rem1 # <<>>
               THEN context_switches + 1 ELSE context_switches
    /\ running_process' = None
    /\ pc' = "loop"
    /\ UNCHANGED <<configVars, history, syncVars, engineVars, ready_queue, queues, last_aging_time,
                   last_boost_time, current_level, result, recommendation>>

(* ---------------------------------------------------------------------- *)
(* MLFQ                                                                   *)
(* ---------------------------------------------------------------------- *)
\* levels are numbered from 0 as in the code; queues[l + 1] is level l
\* the level of the lowest-priority non-empty queue
GetCurrentLevelLowest(qs) ==
    IF \E l \in 0..(Len(qs) - 1) : qs[l + 1] # <<>>
    THEN CHOOSE l \in 0..(Len(qs) - 1) :
            /\ qs[l + 1] # <<>>
            /\ \A m \in (l + 1)..(Len(qs) - 1) : qs[m + 1] = <<>>
    ELSE -1

\* MLFQScheduler.get_current_level
GetCurrentLevel(qs) ==
    IF \E l \in 0..(Len(qs) - 1) : qs[l + 1] # <<>>
    THEN SetMin({l \in 0..(Len(qs) - 1) : qs[l + 1] # <<>>})
    ELSE -1

\* the level MLFQScheduler.add_to_queue puts a process on
ClampLevel(level) == Max2(0, Min2(level, num_levels - 1))

\* MLFQScheduler.add_to_queue: the queues
AddToQueueQ(qs, process, level) ==
    [qs EXCEPT ![ClampLevel(level) + 1] = Append(@, process)]

\* an add_to_queue that leaves the state of the process alone
AddToQueuePKeepState(p, level) == [p EXCEPT !.queue_level = ClampLevel(level)]

\* MLFQScheduler.add_to_queue: the process
AddToQueueP(p, level) ==
    [p EXCEPT !.queue_level = ClampLevel(level), !.state = "READY"]

\* add_to_queue(p, 0) for every process of arrived, in order
RECURSIVE AdmitQ(_, _)
AdmitQ(qs, arrived) ==
    IF arrived = <<>> THEN qs
    ELSE AdmitQ(AddToQueueQ(qs, Head(arrived), 0), Tail(arrived))

AdmitP(ps, arrived) ==
    [i \in 1..Len(ps) |->
        IF i \in Range(arrived) THEN AddToQueueP(ps[i], 0) ELSE ps[i]]

\* the concatenation of the queues of level from and below
RECURSIVE LowerQueues(_, _)
LowerQueues(qs, from) ==
    IF from > Len(qs) THEN <<>>
    ELSE qs[from] \o LowerQueues(qs, from + 1)

\* MLFQScheduler.priority_boost: the queues
PriorityBoostQ(qs) ==
    [l \in 1..Len(qs) |->
        IF l = 1 THEN qs[1] \o LowerQueues(qs, 2) ELSE <<>>]

\* MLFQScheduler.priority_boost: the processes
PriorityBoostP(ps, qs) ==
    [i \in 1..Len(ps) |->
        IF i \in Range(LowerQueues(qs, 2))
        THEN [ps[i] EXCEPT !.queue_level = 0] ELSE ps[i]]

\* the configured quantum taken literally, 0 included
LevelQuantumLiteral(level, p) == time_quantums[level + 1]

\* the time quantum of a dispatch at a level; 0 stands for run to completion
LevelQuantum(level, p) ==
    IF time_quantums[level + 1] = 0
    THEN p.remaining_time
    ELSE time_quantums[level + 1]

\* an arrival check that cuts a run short on every level
ArrivalCutsEveryLevel(next_arrival, potential_end, level) ==
    next_arrival < potential_end

\* MLFQScheduler.schedule: whether the next arrival cuts the run short
ArrivalCuts(next_arrival, potential_end, level) ==
    next_arrival < potential_end /\ level > 0

\* a demotion that drops straight to the lowest level
NewLevelBottom(level) == num_levels - 1

\* MLFQScheduler.schedule: the level a process that used its full quantum
\* is demoted to
NewLevel(level) == Min2(level + 1, num_levels - 1)

\* MLFQScheduler.schedule, up to the main loop
MLFQSchedule ==
    /\ pc = "idle"
    /\ algorithm = "MLFQ"
    /\ iterations' = 0
    /\ ResetAll
    /\ queues' = [l \in 1..num_levels |-> <<>>]
    /\ last_boost_time' = 0
    /\ remaining' = SortedByArrival(processes')
    /\ completed_count' = 0
    /\ pc' = "loop"
    /\ UNCHANGED <<configVars, history, syncVars, engineVars, circular_queue, last_aging_time, current_level,
                   result, recommendation>>

\* one pass of the loop head: admission, boost, idle jump, dispatch of the
\* head of the highest non-empty queue
MLFQDispatch ==
    /\ pc = "loop"
    /\ algorithm = "MLFQ"
    /\ iterations' = iterations + 1
    /\ completed_count < Len(processes)
    /\ LET arrived == ArrivedPrefix(remaining, processes, current_time)
           rem1 == SubSeq(remaining, Len(arrived) + 1, Len(remaining))
           ps1 == AdmitP(processes, arrived)
           qs1 == AdmitQ(queues, arrived)
           boost == current_time - last_boost_time >= boost_interval
           ps2 == IF boost THEN PriorityBoostP(ps1, qs1) ELSE ps1
           qs2 == IF boost THEN PriorityBoostQ(qs1) ELSE qs1
           level == GetCurrentLevel(qs2)
       IN /\ remaining' = rem1
          /\ last_boost_time' = IF boost THEN current_time ELSE last_boost_time
          /\ IF level = -1
             THEN /\ processes' = ps2
                  /\ queues' = qs2
                  /\ IF rem1 # <<>>
                     THEN /\ current_time' = NextArrival(ps2, rem1)
                          /\ pc' = "loop"
                     ELSE /\ current_time' = current_time
                          /\ pc' = "exit"
                  /\ UNCHANGED <<running_process, current_level>>
             ELSE LET process == Head(qs2[level + 1])
                  IN /\ queues' = [qs2 EXCEPT ![level + 1] = Tail(@)]
                     /\ processes' =
                          [ps2 EXCEPT ![process] =
                             [WithResponse(ps2[process], current_time)
                                EXCEPT !.state = "RUNNING"]]
                     /\ running_process' = process
                     /\ current_level' = level
                     /\ pc' = "run"
                     /\ UNCHANGED current_time
    /\ UNCHANGED <<configVars, history, syncVars, engineVars, ready_queue, circular_queue, gantt_chart,
                   context_switches, completed_count, last_aging_time, result,
                   recommendation>>

\* execution for the quantum of the level, cut short by an arrival on the
\* lower levels; admission of the arrivals; completion, demotion or re-queueing
MLFQRun ==
    /\ pc = "run"
    /\ algorithm = "MLFQ"
    /\ UNCHANGED iterations
    /\ LET process == running_process
           p == processes[process]
           quantum == LevelQuantum(current_level, p)
           full_run == Min2(quantum, p.remaining_time)
           potential_end == current_time + full_run
           cut == /\ remaining # <<>>
                  /\ ArrivalCuts(processes[Head(remaining)].arrival_time,
                                 potential_end, current_level)
           run_time == IF cut
                       THEN processes[Head(remaining)].arrival_time - current_time
                       ELSE full_run
           actual_run_time == Min2(run_time, p.remaining_time)
           start_time == current_time
           end_time == current_time + actual_run_time
           left == p.remaining_time - actual_run_time
           arrived == ArrivedPrefix(remaining, processes, end_time)
           rem1 == SubSeq(remaining, Len(arrived) + 1, Len(remaining))
           ps1 == AdmitP(processes, arrived)
           qs1 == AdmitQ(queues, arrived)
           new_level == NewLevel(current_level)
       IN /\ current_time' = end_time
          /\ gantt_chart' = Append(gantt_chart, <<p.pid, start_time, end_time>>)
          /\ remaining' = rem1
          /\ IF left <= 0
             THEN /\ processes' =
                       [ps1 EXCEPT ![process] =
                          CalculateProcessMetrics(
                             [p EXCEPT !.remaining_time = 0,
                                       !.completion_time = end_time,
                                       !.state = "TERMINATED"])]
                  /\ queues' = qs1
                  /\ completed_count' = completed_count + 1
             ELSE IF actual_run_time >= quantum /\ current_level < num_levels - 1
             THEN /\ processes' =
                       [ps1 EXCEPT ![process] =
                          AddToQueueP([p EXCEPT !.remaining_time = left],
                                      new_level)]
                  /\ queues' = AddToQueueQ(qs1, process, new_level)
                  /\ UNCHANGED completed_count
             ELSE /\ processes' =
                       [ps1 EXCEPT ![process] =
                          AddToQueueP([p EXCEPT !.remaining_time = left],
                                      current_level)]
                  /\ queues' = AddToQueueQ(qs1, process, current_level)
                  /\ UNCHANGED completed_count
    /\ context_switches' = context_switches + 1
    /\ running_process' = None
    /\ pc' = "loop"
    /\ UNCHANGED <<configVars, history, syncVars, engineVars, ready_queue, circular_queue, last_aging_time,
                   last_boost_time, current_level, result, recommendation>>

(* ---------------------------------------------------------------------- *)
(* Return                                                                 *)
(* ---------------------------------------------------------------------- *)
\* the condition of the main loop of schedule()
LoopCondition ==
    IF algorithm \in {"FCFS", "SJF", "Priority"}
    THEN remaining # <<>> \/ ready_queue # <<>>
    ELSE completed_count < Len(processes)

\* the loop is left and schedule() returns self.create_result(processes)
Return ==
    /\ \/ pc = "exit"
       \/ pc = "loop" /\ ~LoopCondition
    /\ UNCHANGED iterations
    /\ LET r == CreateResult
       IN IF MetricsRaised(r)
          THEN /\ pc' = "raised"
               /\ UNCHANGED result
          ELSE /\ pc' = "returned"
               /\ result' = r
    /\ UNCHANGED <<configVars, history, syncVars, engineVars, processes, ready_queue, circular_queue, queues,
                   current_time, gantt_chart, context_switches,
                   running_process, remaining, completed_count,
                   last_aging_time, last_boost_time, current_level,
                   recommendation>>

Next ==
    \/ FCFSSchedule
    \/ FCFSDispatch
    \/ FCFSRun
    \/ SJFSchedule
    \/ SJFDispatch
    \/ SJFRun
    \/ PrioritySchedule
    \/ PriorityDispatch
    \/ PriorityRun
    \/ SRTFSchedule
    \/ SRTFDispatch
    \/ SRTFRun
    \/ PreemptivePrioritySchedule
    \/ PreemptivePriorityDispatch
    \/ PreemptivePriorityRun
    \/ RoundRobinSchedule
    \/ RoundRobinDispatch
    \/ RoundRobinRun
    \/ MLFQSchedule
    \/ MLFQDispatch
    \/ MLFQRun
    \/ Return

Spec == Init /\ [][Next]_vars


(* ---------------------------------------------------------------------- *)
(* Repeated runs on the same process objects                              *)
(* ---------------------------------------------------------------------- *)
(* The caller keeps every returned result and calls schedule() again, on  *)
(* the same scheduler instance or on a newly constructed one, with the    *)
(* same Process objects (compare_all, SimulationEngine).  An entry of     *)
(* history records the constructor arguments of the run and the result as *)
(* it was when it was returned.                                           *)
(* ---------------------------------------------------------------------- *)
CurrentConfig ==
    [algorithm |-> algorithm, time_quantum |-> time_quantum,
     aging_interval |-> aging_interval, aging_amount |-> aging_amount,
     time_quantums |-> time_quantums, boost_interval |-> boost_interval]

\* process lists with pids 1..n and extreme field values
RerunLists ==
    UNION {
      {[i \in 1..n |-> NewProcess(i, bu[i], pr[i], ar[i], FALSE)] :
          bu \in [1..n -> {1, MaxBurst}],
          pr \in [1..n -> {0, MaxPriority}],
          ar \in [1..n -> {0, MaxArrival}]} : n \in 0..MaxRerunProcs}

RerunInit == \E c \in Configs : \E ps \in RerunLists : InitWith(c, ps)

\* the caller keeps the returned result and prepares the next schedule()
\* call on the same processes: on the same instance if the constructor
\* arguments are the same, on a newly constructed scheduler otherwise
ScheduleAgain ==
    /\ pc = "returned"
    /\ Len(history) + 1 < MaxRuns
    /\ \E c \in Configs :
         /\ IF history = <<>> THEN TRUE ELSE c = history[1].config
         /\ algorithm' = c.algorithm
         /\ time_quantum' = c.time_quantum
         /\ aging_interval' = c.aging_interval
         /\ aging_amount' = c.aging_amount
         /\ time_quantums' = c.time_quantums
         /\ boost_interval' = c.boost_interval
         /\ IF c = CurrentConfig
            THEN UNCHANGED <<ready_queue, circular_queue, queues,
                             current_time, gantt_chart, context_switches,
                             running_process, last_boost_time>>
            ELSE /\ ready_queue' = <<>>
                 /\ circular_queue' = <<>>
                 /\ queues' = [l \in 1..Len(c.time_quantums) |-> <<>>]
                 /\ current_time' = 0
                 /\ gantt_chart' = <<>>
                 /\ context_switches' = 0
                 /\ running_process' = None
                 /\ last_boost_time' = 0
    /\ history' = Append(history, [config |-> CurrentConfig, result |-> result])
    /\ pc' = "idle"
    /\ UNCHANGED <<syncVars, engineVars, processes, remaining, completed_count,
                   last_aging_time, current_level, iterations, result,
                   recommendation>>

RerunNext == Next \/ ScheduleAgain

RerunSpec == RerunInit /\ [][RerunNext]_vars

(* ---------------------------------------------------------------------- *)
(* The same processes in another list order                               *)
(* ---------------------------------------------------------------------- *)
(* The caller keeps the returned result, reorders its list of the same    *)
(* Process objects and calls schedule() on the same scheduler again.      *)
(* ---------------------------------------------------------------------- *)
MaxPermProcs == 3

\* process lists with pids 1..n in list order and extreme field values
PermLists ==
    UNION {
      {[i \in 1..n |-> NewProcess(i, bu[i], pr[i], ar[i], FALSE)] :
          bu \in [1..n -> {1, MaxBurst}],
          pr \in [1..n -> {0, MaxPriority}],
          ar \in [1..n -> {0, MaxArrival}]} : n \in 0..MaxPermProcs}

PermInit == \E c \in Configs : \E ps \in PermLists : InitWith(c, ps)

\* the orders a list of n elements can be put in
Orders(n) ==
    {f \in [1..n -> 1..n] : \A i, j \in 1..n : i # j => f[i] # f[j]}

\* the caller's list after reordering
Reordered(ps, f) == [i \in 1..Len(ps) |-> ps[f[i]]]

\* the caller keeps the result and calls schedule() with the list in
\* another order
ScheduleReordered ==
    /\ pc = "returned"
    /\ history = <<>>
    /\ \E f \in Orders(Len(processes)) :
          /\ f # Positions(processes)
          /\ processes' = Reordered(processes, f)
    /\ history' = <<[config |-> CurrentConfig, result |-> result]>>
    /\ pc' = "idle"
    /\ UNCHANGED <<configVars, syncVars, engineVars, ready_queue,
                   circular_queue, queues, current_time, gantt_chart,
                   context_switches, running_process, remaining,
                   completed_count, last_aging_time, last_boost_time,
                   current_level, iterations, result, recommendation>>

PermNext == Next \/ ScheduleReordered

PermSpec == PermInit /\ [][PermNext]_vars

(* ---------------------------------------------------------------------- *)
(* Adaptive selector                                                      *)
(* ---------------------------------------------------------------------- *)
(* Floating-point values are kept as exact quotients of integers.  An     *)
(* estimate is avg_burst * coef / 120, times (1 + 0.3 * cv) where the     *)
(* FCFS penalty applies; cv enters every comparison through its square.   *)
(* The decimal rendering of the quantum in the name "RR (q=...)" is kept   *)
(* apart, in time_quantum of the recommended scheduler.                   *)
(* ---------------------------------------------------------------------- *)
SumSquares(s) == SumSeq([i \in 1..Len(s) |-> s[i] * s[i]])

\* statistics.variance of at least two integers
Variance(s) ==
    LET n == Len(s)
    IN Ratio(n * SumSquares(s) - SumSeq(s) * SumSeq(s), n * (n - 1))

EmptyAnalysis ==
    [process_count |-> 0, avg_burst_time |-> Zero,
     burst_time_variance |-> Zero, cv_squared |-> Zero,
     priority_range |-> 0, priority_variance |-> Zero,
     io_count |-> 0, is_interactive |-> FALSE, is_batch |-> FALSE]

\* AdaptiveSelector.analyze_workload; io_bound_ratio is io_count / process_count
AnalyzeWorkload(ps) ==
    IF ps = <<>> THEN EmptyAnalysis
    ELSE
      LET n == Len(ps)
          burst_times == [i \in 1..n |-> ps[i].burst_time]
          priorities == [i \in 1..n |-> ps[i].priority]
          total == SumSeq(burst_times)
          burst_variance == IF n > 1 THEN Variance(burst_times) ELSE Zero
          cvsq == IF total > 0
                  THEN Ratio(burst_variance.num * n * n,
                             burst_variance.den * total * total)
                  ELSE Zero
          io_count == Cardinality({i \in 1..n : ps[i].io_bound})
      IN [process_count |-> n,
          avg_burst_time |-> Ratio(total, n),
          burst_time_variance |-> burst_variance,
          cv_squared |-> cvsq,
          priority_range |->
              IF n > 0
              THEN SetMin({-priorities[i] : i \in 1..n}) * (-1)
                   - SetMin(Range(priorities))
              ELSE 0,
          priority_variance |-> IF n > 1 THEN Variance(priorities) ELSE Zero,
          io_count |-> io_count,
          is_interactive |-> total < 50 * n /\ 10 * io_count > 3 * n,
          is_batch |-> total > 100 * n /\ 5 * io_count < n]

\* io_bound_ratio > 0.3
IoAbove30(analysis) == 10 * analysis.io_count > 3 * analysis.process_count

\* io_bound_ratio > 0.5
IoAbove50(analysis) == 2 * analysis.io_count > analysis.process_count

\* coefficient_of_variation > 0.5
CvAboveHalf(analysis) == 4 * analysis.cv_squared.num > analysis.cv_squared.den

\* the quantum the selector gives Round Robin
SelectorQuantum(analysis) ==
    Min2(Max2(MIN_TIME_QUANTUM,
              analysis.avg_burst_time.num
                  \div (analysis.avg_burst_time.den * QUANTUM_DIVISOR)),
         MAX_TIME_QUANTUM)

EstimateOrder ==
    <<"FCFS", "SJF", "SRTF", "RR", "Priority", "PreemptivePriority", "MLFQ">>

\* PerformanceEstimate.algorithm of each key of the estimates
DisplayName(key) ==
    CASE key = "RR" -> "RR (q=)"
      [] key = "PreemptivePriority" -> "Preemptive Priority"
      [] OTHER -> key

\* AdaptiveSelector._estimate_performance, in dict order
EstimatePerformance(analysis) ==
    LET n == analysis.process_count
        coef(key) ==
            CASE key = "FCFS" -> 60 * (n - 1)
              [] key = "SJF" -> 40 * (n - 1)
              [] key = "SRTF" -> 30 * (n - 1)
              [] key = "RR" -> IF IoAbove30(analysis) THEN 48 * n ELSE 60 * n
              [] key = "Priority" ->
                   IF RLess(analysis.priority_variance, [num |-> 3, den |-> 1])
                   THEN 52 * (n - 1) ELSE 40 * (n - 1)
              [] key = "PreemptivePriority" ->
                   IF IoAbove30(analysis) THEN 27 * (n - 1) ELSE 30 * (n - 1)
              [] key = "MLFQ" -> IF n > 10 THEN 36 * n ELSE 40 * n
    IN [k \in 1..Len(EstimateOrder) |->
          [key |-> EstimateOrder[k],
           algorithm |-> DisplayName(EstimateOrder[k]),
           coef |-> coef(EstimateOrder[k]),
           penalized |-> EstimateOrder[k] = "FCFS" /\ CvAboveHalf(analysis)]]

\* x.estimated_wait_time < y.estimated_wait_time
EstimateLess(x, y, analysis) ==
    LET cvsq == analysis.cv_squared
    IN /\ analysis.avg_burst_time.num > 0
       /\ CASE x.penalized /\ ~y.penalized ->
                 LET d == y.coef - x.coef
                     k == (3 * x.coef) \div 10
                 IN d > 0 /\ k * k * cvsq.num < d * d * cvsq.den
            [] ~x.penalized /\ y.penalized ->
                 LET d == x.coef - y.coef
                     k == (3 * y.coef) \div 10
                 IN d < 0 \/ d * d * cvsq.den < k * k * cvsq.num
            [] OTHER -> x.coef < y.coef

\* insertion that keeps the greatest estimate first
RECURSIVE InsertEstimateDescending(_, _, _)
InsertEstimateDescending(x, s, analysis) ==
    IF s = <<>> THEN <<x>>
    ELSE IF EstimateLess(Head(s), x, analysis) THEN <<x>> \o s
    ELSE <<Head(s)>> \o InsertEstimateDescending(x, Tail(s), analysis)

\* insertion in front of every estimate that is not smaller: ties come out
\* in reverse order
RECURSIVE InsertEstimateBeforeEqual(_, _, _)
InsertEstimateBeforeEqual(x, s, analysis) ==
    IF s = <<>> THEN <<x>>
    ELSE IF ~EstimateLess(Head(s), x, analysis) THEN <<x>> \o s
    ELSE <<Head(s)>> \o InsertEstimateBeforeEqual(x, Tail(s), analysis)

\* insertion behind every estimate that is not greater (stable)
RECURSIVE InsertEstimate(_, _, _)
InsertEstimate(x, s, analysis) ==
    IF s = <<>> THEN <<x>>
    ELSE IF EstimateLess(x, Head(s), analysis) THEN <<x>> \o s
    ELSE <<Head(s)>> \o InsertEstimate(x, Tail(s), analysis)

RECURSIVE SortEstimatesAcc(_, _, _)
SortEstimatesAcc(acc, s, analysis) ==
    IF s = <<>> THEN acc
    ELSE SortEstimatesAcc(InsertEstimate(Head(s), acc, analysis), Tail(s),
                          analysis)

\* sorted(estimates.values(), key=lambda x: x.estimated_wait_time)
SortedEstimates(estimates, analysis) == SortEstimatesAcc(<<>>, estimates, analysis)

\* a selector without preference for Round Robin and MLFQ
FirstFairIgnored(top_3, default) == default

\* the first estimate of top_3 whose name contains "RR" or "MLFQ", if any
RECURSIVE FirstFair(_, _)
FirstFair(top_3, default) ==
    IF top_3 = <<>> THEN default
    ELSE IF Head(top_3).key \in {"RR", "MLFQ"} THEN Head(top_3)
    ELSE FirstFair(Tail(top_3), default)

\* the estimate select_scheduler settles on
SelectEstimate(analysis) ==
    LET estimates == EstimatePerformance(analysis)
        sorted_estimates == SortedEstimates(estimates, analysis)
        top_3 == SubSeq(sorted_estimates, 1, 3)
        top_3_keys == {top_3[k].key : k \in 1..Len(top_3)}
        by_key(key) ==
            estimates[CHOOSE k \in 1..Len(estimates) : estimates[k].key = key]
        priority_criteria_met ==
            /\ RLess([num |-> PRIORITY_VARIANCE_THRESHOLD, den |-> 1],
                     analysis.priority_variance)
            /\ analysis.priority_range > PRIORITY_RANGE_THRESHOLD
    IN IF priority_criteria_met
       THEN IF "PreemptivePriority" \in top_3_keys /\ IoAbove30(analysis)
            THEN by_key("PreemptivePriority")
            ELSE IF "Priority" \in top_3_keys
            THEN by_key("Priority")
            ELSE top_3[1]
       ELSE IF analysis.is_interactive
            THEN FirstFair(top_3, top_3[1])
            ELSE IF IoAbove50(analysis)
            THEN FirstFair(top_3, top_3[1])
            ELSE top_3[1]

\* the recommendation for a workload that is analysed as non-empty
Recommend(analysis) ==
    LET selected == SelectEstimate(analysis)
    IN [scheduler |-> NewScheduler(selected.key, SelectorQuantum(analysis)),
        algorithm_name |-> selected.algorithm,
        expected_avg_wait |->
            [num |-> analysis.avg_burst_time.num * selected.coef,
             den |-> analysis.avg_burst_time.den * 120,
             penalized |-> selected.penalized],
        confidence |-> [num |-> 85, den |-> 100]]

\* select_scheduler without its default for the empty list
SelectSchedulerNoDefault(ps) == Recommend(AnalyzeWorkload(ps))

\* AdaptiveSelector.select_scheduler
SelectSchedulerOf(ps) ==
    LET analysis == AnalyzeWorkload(ps)
    IN IF analysis.process_count = 0
       THEN [scheduler |-> NewScheduler("FCFS", 0), algorithm_name |-> "FCFS",
             expected_avg_wait |-> [num |-> 0, den |-> 1, penalized |-> FALSE],
             confidence |-> [num |-> 1, den |-> 1]]
       ELSE Recommend(analysis)

\* the workloads given to the selector: short and long bursts, near and far
\* priorities, CPU-bound and I/O-bound processes
SelectorLists ==
    UNION {
      {[i \in 1..n |-> NewProcess(i, bu[i], pr[i], 0, io[i])] :
          bu \in [1..n -> {20, 120}],
          pr \in [1..n -> {1, 10}],
          io \in [1..n -> BOOLEAN]} : n \in 0..MaxSelectorProcs}

\* workloads of more than ten processes: k processes of one kind followed by
\* processes of another kind
CrowdLists ==
    {[i \in 1..CrowdSize |->
        IF i <= k THEN NewProcess(i, a[1], a[2], 0, a[3])
        ELSE NewProcess(i, b[1], b[2], 0, b[3])] :
        k \in 0..CrowdSize,
        a \in {20, 120} \X {1, 10} \X BOOLEAN,
        b \in {20, 120} \X {1, 10} \X BOOLEAN}

\* the documented selector scenario: five processes of burst 100 and
\* priority 5, none of them I/O-bound
ScenarioD == [i \in 1..5 |-> NewProcess(i, 100, 5, 0, FALSE)]

\* the processes of ps as an earlier FCFS run leaves them (all of them
\* arrive at time 0, so they ran in list order)
AfterRun(ps) ==
    [i \in 1..Len(ps) |->
        LET done == SumSeq([j \in 1..i |-> ps[j].burst_time])
        IN [ps[i] EXCEPT !.state = "TERMINATED", !.remaining_time = 0,
                         !.completion_time = done, !.turnaround_time = done,
                         !.waiting_time = done - ps[i].burst_time,
                         !.response_time = done - ps[i].burst_time,
                         !.start_time = done - ps[i].burst_time]]

\* workloads that have been scheduled before they are given to the selector
UsedLists == {AfterRun(ps) : ps \in {qs \in SelectorLists : Len(qs) \in 1..2}}

SelectorInit ==
    \E ps \in SelectorLists \cup CrowdLists \cup {ScenarioD} \cup UsedLists :
        InitWith(DefaultConfig, ps)

\* a selector that resets the processes it analyses
SelectSchedulerResetting ==
    /\ pc = "idle"
    /\ recommendation' = SelectSchedulerOf(processes)
    /\ processes' = [i \in 1..Len(processes) |-> ProcessReset(processes[i])]
    /\ pc' = "selected"
    /\ UNCHANGED <<configVars, history, syncVars, engineVars, ready_queue, circular_queue, queues,
                   current_time, gantt_chart, context_switches,
                   running_process, remaining, completed_count,
                   last_aging_time, last_boost_time, current_level,
                   iterations, result>>

\* a call of select_scheduler(processes)
SelectScheduler ==
    /\ pc = "idle"
    /\ recommendation' = SelectSchedulerOf(processes)
    /\ pc' = "selected"
    /\ UNCHANGED <<configVars, history, syncVars, engineVars, processes, ready_queue, circular_queue, queues,
                   current_time, gantt_chart, context_switches,
                   running_process, remaining, completed_count,
                   last_aging_time, last_boost_time, current_level,
                   iterations, result>>

SelectorNext == SelectScheduler

SelectorSpec == SelectorInit /\ [][SelectorNext]_vars

(* ---------------------------------------------------------------------- *)
(* Properties                                                             *)
(* ---------------------------------------------------------------------- *)
GanttLength(g) == SumSeq([k \in 1..Len(g) |-> g[k][3] - g[k][2]])

TotalBurst(ps) == SumSeq([i \in 1..Len(ps) |-> ps[i].burst_time])

\* the intervals of g that belong to pid
IntervalsOf(g, pid) == {k \in 1..Len(g) : g[k][1] = pid}

\* the position in ps of the process with the given pid
ByPid(ps, pid) == CHOOSE i \in 1..Len(ps) : ps[i].pid = pid

\* ps is the process list qs, whatever has been recorded on it since
SameInput(ps, qs) ==
    /\ Len(ps) = Len(qs)
    /\ \A i \in 1..Len(ps) :
         /\ ps[i].pid = qs[i].pid
         /\ ps[i].arrival_time = qs[i].arrival_time
         /\ ps[i].burst_time = qs[i].burst_time

\* C1: in the result of every scheduler the lengths of the Gantt intervals
\* add up to the sum of the burst times: no work is created or lost.
C1_WorkConserved ==
    pc = "returned" =>
        GanttLength(result.gantt_chart) = TotalBurst(result.processes)

\* a returned run in which a process was preempted and resumed
C1_Witness ==
    /\ pc = "returned"
    /\ Len(result.processes) = 2
    /\ \E pid \in 1..2 : Cardinality(IntervalsOf(result.gantt_chart, pid)) >= 2

GanttWellFormed(g) ==
    /\ \A k \in 1..Len(g) : g[k][2] < g[k][3]
    /\ \A k \in 1..(Len(g) - 1) :
         /\ g[k][2] <= g[k + 1][2]
         /\ g[k][3] <= g[k + 1][2]

\* C2: the Gantt chart, while it is built and as returned, is ordered by
\* start, every interval has start < end, and each interval ends no later
\* than the next one starts.
C2_GanttExclusive ==
    /\ GanttWellFormed(gantt_chart)
    /\ GanttWellFormed(result.gantt_chart)
    /\ pc = "returned" => result.gantt_chart = gantt_chart

\* a returned chart of three intervals with idle time between two of them
C2_Witness ==
    /\ pc = "returned"
    /\ Len(result.gantt_chart) >= 3
    /\ \E k \in 1..(Len(result.gantt_chart) - 1) :
         result.gantt_chart[k][3] < result.gantt_chart[k + 1][2]

AllTerminated(ps) ==
    \A i \in 1..Len(ps) :
        ps[i].remaining_time = 0 /\ ps[i].state = "TERMINATED"

\* C3: every schedule() call terminates (the main loop is entered at most
\* once per unit of work and once per arrival, and once more to leave), and
\* at return every process has remaining_time = 0 and state TERMINATED.
C3_Terminates ==
    /\ iterations <= TotalBurst(processes) + Len(processes) + 1
    /\ pc \in {"idle", "loop", "run", "exit", "returned"}
    /\ pc = "returned" =>
            /\ Len(result.processes) = Len(processes)
            /\ AllTerminated(result.processes)

\* a returned run of two processes under a non-default configuration
C3_Witness ==
    /\ pc = "returned"
    /\ Len(result.processes) = 2
    /\ AllTerminated(result.processes)
    /\ algorithm = "MLFQ"
    /\ time_quantums # DefaultTimeQuantums
    /\ Len(result.gantt_chart) >= 4

\* C4: after schedule() returns, every process has turnaround_time =
\* completion_time - arrival_time, waiting_time = turnaround_time -
\* burst_time, and waiting_time >= 0.
C4_MetricIdentities ==
    pc = "returned" =>
        \A i \in 1..Len(result.processes) :
            LET p == result.processes[i]
            IN /\ p.turnaround_time = p.completion_time - p.arrival_time
               /\ p.waiting_time = p.turnaround_time - p.burst_time
               /\ p.waiting_time >= 0

\* a returned run in which a process that arrived after time 0 had to wait
C4_Witness ==
    /\ pc = "returned"
    /\ \E i \in 1..Len(result.processes) :
         /\ result.processes[i].arrival_time > 0
         /\ result.processes[i].waiting_time > 0

\* C5: FCFS runs the processes in ascending (arrival_time, pid) order, each
\* in one interval that starts at the later of its arrival and the end of the
\* preceding interval and lasts burst_time; the waiting time is the delay of
\* that start behind the arrival; P1(0,5), P2(1,3), P3(2,8) gives
\* [(1,0,5),(2,5,8),(3,8,16)] with waiting times 0, 4, 6.
C5_FCFSOrder ==
    (pc = "returned" /\ algorithm = "FCFS") =>
        LET g == result.gantt_chart
            ps == result.processes
            proc(k) == ps[ByPid(ps, g[k][1])]
        IN /\ Len(g) = Len(ps)
           /\ \A k \in 1..Len(g) : \E i \in 1..Len(ps) : ps[i].pid = g[k][1]
           /\ \A k \in 1..(Len(g) - 1) :
                LexLess(<<proc(k).arrival_time, proc(k).pid>>,
                        <<proc(k + 1).arrival_time, proc(k + 1).pid>>)
           /\ \A k \in 1..Len(g) :
                /\ g[k][2] = Max2(proc(k).arrival_time,
                                  IF k = 1 THEN 0 ELSE g[k - 1][3])
                /\ g[k][3] = g[k][2] + proc(k).burst_time
                /\ proc(k).waiting_time = g[k][2] - proc(k).arrival_time
           /\ SameInput(ps, ScenarioA) =>
                /\ g = <<<<1, 0, 5>>, <<2, 5, 8>>, <<3, 8, 16>>>>
                /\ [i \in 1..3 |-> ps[i].waiting_time] = <<0, 4, 6>>

\* an FCFS run in which the second process arrived while the first was running
C5_Witness ==
    /\ pc = "returned"
    /\ algorithm = "FCFS"
    /\ Len(result.gantt_chart) = 2
    /\ result.processes[ByPid(result.processes, result.gantt_chart[2][1])].waiting_time > 0

\* arrived and unfinished at the current time
Runnable(i) ==
    /\ processes[i].arrival_time <= current_time
    /\ processes[i].remaining_time > 0

\* C6: SRTF gives the CPU to the process with the smallest (remaining_time,
\* arrival_time, pid) among the arrived, unfinished processes, and no
\* arrival falls strictly inside a Gantt interval, so the choice stands for
\* the whole interval; P1(0,8), P2(1,4) gives [(1,0,1),(2,1,5),(1,5,12)].
C6_SRTFShortestRuns ==
    algorithm = "SRTF" =>
        /\ pc = "run" =>
             /\ running_process # None
             /\ Runnable(running_process)
             /\ \A j \in 1..Len(processes) :
                  (Runnable(j) /\ j # running_process) =>
                      LexLess(<<processes[running_process].remaining_time,
                                processes[running_process].arrival_time,
                                processes[running_process].pid>>,
                              <<processes[j].remaining_time,
                                processes[j].arrival_time, processes[j].pid>>)
        /\ \A k \in 1..Len(gantt_chart) : \A j \in 1..Len(processes) :
             ~(/\ gantt_chart[k][2] < processes[j].arrival_time
               /\ processes[j].arrival_time < gantt_chart[k][3])
        /\ (pc = "returned" /\ SameInput(processes, ScenarioB)) =>
             result.gantt_chart = <<<<1, 0, 1>>, <<2, 1, 5>>, <<1, 5, 12>>>>

\* SRTF has the CPU given back to a preempted process while a later arrival
\* with a longer remaining time waits
C6_Witness ==
    /\ algorithm = "SRTF"
    /\ pc = "run"
    /\ Len(gantt_chart) >= 1
    /\ gantt_chart[Len(gantt_chart)][1] = processes[running_process].pid
    /\ processes[running_process].remaining_time
          < processes[running_process].burst_time
    /\ \E j \in 1..Len(processes) :
         /\ j # running_process
         /\ Runnable(j)
         /\ processes[j].burst_time < processes[running_process].burst_time

\* C7: every Round Robin dispatch takes the head of the FIFO queue and runs
\* it for exactly min(time_quantum, remaining_time); a process whose
\* remaining time is used up, also exactly at the quantum boundary, is
\* completed and not re-enqueued, any other goes to the back of the queue;
\* with quantum 4, P1(0,5), P2(0,3) gives [(1,0,4),(2,4,7),(1,7,8)].
C7_RoundRobinQuantum ==
    [][algorithm = "RR" =>
        /\ (pc = "loop" /\ pc' = "run") =>
             IF circular_queue # <<>>
             THEN /\ running_process' = Head(circular_queue)
                  /\ circular_queue' = Tail(circular_queue)
             ELSE /\ processes[running_process'].state = "NEW"
                  /\ processes[running_process'].arrival_time <= current_time
                  /\ \A j \in 1..Len(processes) :
                       (/\ j # running_process'
                        /\ processes[j].state = "NEW"
                        /\ processes[j].arrival_time <= current_time) =>
                           LexLess(<<processes[running_process'].arrival_time,
                                     processes[running_process'].pid>>,
                                   <<processes[j].arrival_time,
                                     processes[j].pid>>)
        /\ pc = "run" =>
             LET r == running_process
                 left == processes[r].remaining_time
                 run == Min2(time_quantum, left)
             IN /\ gantt_chart' =
                     Append(gantt_chart,
                            <<processes[r].pid, current_time, current_time + run>>)
                /\ current_time' = current_time + run
                /\ processes'[r].remaining_time = left - run
                /\ IF left <= time_quantum
                   THEN /\ processes'[r].state = "TERMINATED"
                        /\ processes'[r].remaining_time = 0
                        /\ processes'[r].completion_time = current_time'
                        /\ r \notin Range(circular_queue')
                   ELSE /\ circular_queue' # <<>>
                        /\ circular_queue'[Len(circular_queue')] = r
                        /\ processes'[r].state = "READY"
        /\ (pc' = "returned" /\ time_quantum = 4
              /\ SameInput(processes, ScenarioC)) =>
             result'.gantt_chart = <<<<1, 0, 4>>, <<2, 4, 7>>, <<1, 7, 8>>>>
      ]_vars

\* Round Robin has just completed a process that used up its remaining time
\* exactly at the quantum boundary while another process waits in the queue
C7_Witness ==
    /\ algorithm = "RR"
    /\ pc = "loop"
    /\ circular_queue # <<>>
    /\ Len(gantt_chart) >= 2
    /\ LET last == gantt_chart[Len(gantt_chart)]
           p == processes[ByPid(processes, last[1])]
       IN /\ last[3] - last[2] = time_quantum
          /\ p.state = "TERMINATED"
          /\ p.remaining_time = 0
          /\ ByPid(processes, last[1]) \notin Range(circular_queue)

\* C8: under FCFS, SJF and non-preemptive Priority every process has exactly
\* one Gantt interval, of length burst_time, and response_time = waiting_time.
C8_NonPreemptive ==
    (pc = "returned" /\ algorithm \in {"FCFS", "SJF", "Priority"}) =>
        \A i \in 1..Len(result.processes) :
            LET p == result.processes[i]
                own == IntervalsOf(result.gantt_chart, p.pid)
            IN /\ Cardinality(own) = 1
               /\ \A k \in own :
                    result.gantt_chart[k][3] - result.gantt_chart[k][2]
                        = p.burst_time
               /\ p.response_time = p.waiting_time

\* SJF ran a job to its end although a shorter job arrived while it ran
C8_Witness ==
    /\ pc = "returned"
    /\ algorithm = "SJF"
    /\ Len(result.gantt_chart) = 2
    /\ LET g == result.gantt_chart
           first == result.processes[ByPid(result.processes, g[1][1])]
           second == result.processes[ByPid(result.processes, g[2][1])]
       IN /\ second.burst_time < first.burst_time
          /\ g[1][2] < second.arrival_time
          /\ second.arrival_time < g[1][3]
          /\ g[1][3] - g[1][2] = first.burst_time

IsZero(q) == q.num = 0 /\ q.den # 0

\* C9: schedule([]) raises nothing and returns a result with no processes, an
\* empty Gantt chart, total_time = 0, context_switches = 0 and all averages,
\* cpu_utilization and throughput equal to 0.
C9_EmptyInput ==
    processes = <<>> =>
        /\ pc # "raised"
        /\ pc = "returned" =>
             /\ result.processes = <<>>
             /\ result.gantt_chart = <<>>
             /\ result.total_time = 0
             /\ result.context_switches = 0
             /\ IsZero(result.avg_waiting_time)
             /\ IsZero(result.avg_turnaround_time)
             /\ IsZero(result.avg_response_time)
             /\ IsZero(result.avg_completion_time)
             /\ IsZero(result.cpu_utilization)
             /\ IsZero(result.throughput)

\* a scheduler has returned from schedule([])
C9_Witness ==
    /\ pc = "returned"
    /\ processes = <<>>
    /\ result.algorithm = "MLFQ"

\* C10: select_scheduler([]) recommends "FCFS" with an FCFS scheduler,
\* expected_avg_wait = 0 and confidence 1.0; for every non-empty list the
\* confidence is 0.85.
C10_SelectorConfidence ==
    pc = "selected" =>
        IF processes = <<>>
        THEN /\ recommendation.algorithm_name = "FCFS"
             /\ recommendation.scheduler.algorithm = "FCFS"
             /\ recommendation.expected_avg_wait.num = 0
             /\ recommendation.confidence.num = recommendation.confidence.den
        ELSE /\ recommendation.confidence.num * 100
                  = 85 * recommendation.confidence.den
             /\ recommendation.scheduler.algorithm \in Algorithms

\* the selector has answered for the empty list
C10_Witness ==
    /\ pc = "selected"
    /\ processes = <<>>
    /\ recommendation.algorithm_name = "FCFS"

\* the selector has answered for a list of three processes
C10_WitnessNonEmpty ==
    /\ pc = "selected"
    /\ Len(processes) = 3
    /\ recommendation.confidence = [num |-> 85, den |-> 100]

(* ---------------------------------------------------------------------- *)
(* The documented selection procedure, computed from the process list on  *)
(* its own: estimates as quotients, ranks by counting, then the decision. *)
(* ---------------------------------------------------------------------- *)
RMul(x, y) == Ratio(x.num * y.num, x.den * y.den)

\* x - y for quotients x >= y
RSub(x, y) == Ratio(x.num * y.den - y.num * x.den, x.den * y.den)

DocBursts(ps) == [i \in 1..Len(ps) |-> ps[i].burst_time]

DocPriorities(ps) == [i \in 1..Len(ps) |-> ps[i].priority]

DocMean(ps) == Ratio(SumSeq(DocBursts(ps)), Len(ps))

DocIoRatio(ps) ==
    Ratio(Cardinality({i \in 1..Len(ps) : ps[i].io_bound}), Len(ps))

DocPriorityVariance(ps) ==
    IF Len(ps) > 1 THEN Variance(DocPriorities(ps)) ELSE Zero

DocBurstVariance(ps) == IF Len(ps) > 1 THEN Variance(DocBursts(ps)) ELSE Zero

DocPriorityRange(ps) ==
    LET S == Range(DocPriorities(ps))
    IN (CHOOSE x \in S : \A y \in S : y <= x) - SetMin(S)

\* cv > 0.5, that is variance > mean^2 / 4
DocCvAboveHalf(ps) ==
    /\ DocMean(ps).num > 0
    /\ RLess(RMul(DocMean(ps), DocMean(ps)),
             RMul([num |-> 4, den |-> 1], DocBurstVariance(ps)))

DocPriorityOk(ps) ==
    /\ RLess([num |-> 6, den |-> 1], DocPriorityVariance(ps))
    /\ DocPriorityRange(ps) > 7

DocInteractive(ps) ==
    /\ RLess(DocMean(ps), [num |-> 50, den |-> 1])
    /\ RLess([num |-> 3, den |-> 10], DocIoRatio(ps))

\* the estimate of the table, before the FCFS penalty for a high cv
DocEstimate(key, ps) ==
    LET n == Len(ps)
        io == RLess([num |-> 3, den |-> 10], DocIoRatio(ps))
        one == [num |-> 1, den |-> 1]
        factor ==
            CASE key = "FCFS" -> [num |-> n - 1, den |-> 2]
              [] key = "SJF" -> [num |-> n - 1, den |-> 3]
              [] key = "SRTF" -> [num |-> n - 1, den |-> 4]
              [] key = "RR" -> [num |-> n, den |-> 2]
              [] key = "Priority" -> [num |-> n - 1, den |-> 3]
              [] key = "PreemptivePriority" -> [num |-> n - 1, den |-> 4]
              [] key = "MLFQ" -> [num |-> n, den |-> 3]
        adjustment ==
            CASE key = "RR" /\ io -> [num |-> 8, den |-> 10]
              [] key = "Priority"
                   /\ RLess(DocPriorityVariance(ps), [num |-> 3, den |-> 1]) ->
                     [num |-> 13, den |-> 10]
              [] key = "PreemptivePriority" /\ io -> [num |-> 9, den |-> 10]
              [] key = "MLFQ" /\ n > 10 -> [num |-> 9, den |-> 10]
              [] OTHER -> one
    IN RMul(RMul(DocMean(ps), factor), adjustment)

DocPenalized(key, ps) == key = "FCFS" /\ DocCvAboveHalf(ps)

\* the square of base * 0.3 * cv = 0.3 * (n - 1) / 2 * stdev, times 100
DocPenaltySquared(ps) ==
    RMul([num |-> 9 * (Len(ps) - 1) * (Len(ps) - 1), den |-> 4],
         DocBurstVariance(ps))

\* the estimate of x is smaller than the estimate of y
DocLess(x, y, ps) ==
    LET ex == DocEstimate(x, ps)
        ey == DocEstimate(y, ps)
    IN CASE DocPenalized(x, ps) /\ ~DocPenalized(y, ps) ->
              /\ RLess(ex, ey)
              /\ LET d == RSub(ey, ex)
                 IN RLess(DocPenaltySquared(ps),
                          RMul([num |-> 100, den |-> 1], RMul(d, d)))
         [] ~DocPenalized(x, ps) /\ DocPenalized(y, ps) ->
              \/ RLess(ex, ey)
              \/ LET d == RSub(ex, ey)
                 IN RLess(RMul([num |-> 100, den |-> 1], RMul(d, d)),
                          DocPenaltySquared(ps))
         [] OTHER -> RLess(ex, ey)

\* the number of estimates ranked before the k-th of the table
DocRank(k, ps) ==
    Cardinality({j \in 1..Len(EstimateOrder) :
        \/ DocLess(EstimateOrder[j], EstimateOrder[k], ps)
        \/ j < k /\ ~DocLess(EstimateOrder[k], EstimateOrder[j], ps)})

\* the key ranked r-th, r = 1 for the best
DocTop(r, ps) ==
    EstimateOrder[CHOOSE k \in 1..Len(EstimateOrder) : DocRank(k, ps) = r - 1]

DocTop3(ps) == {DocTop(r, ps) : r \in 1..3}

DocFirstFair(ps) ==
    IF \E r \in 1..3 : DocTop(r, ps) \in {"RR", "MLFQ"}
    THEN DocTop(CHOOSE r \in 1..3 :
                    /\ DocTop(r, ps) \in {"RR", "MLFQ"}
                    /\ \A q \in 1..(r - 1) : DocTop(q, ps) \notin {"RR", "MLFQ"},
                ps)
    ELSE DocTop(1, ps)

DocChoice(ps) ==
    IF DocPriorityOk(ps)
    THEN CASE "PreemptivePriority" \in DocTop3(ps)
                /\ RLess([num |-> 3, den |-> 10], DocIoRatio(ps)) ->
                  "PreemptivePriority"
           [] OTHER ->
                  IF "Priority" \in DocTop3(ps) THEN "Priority"
                  ELSE DocTop(1, ps)
    ELSE IF \/ DocInteractive(ps)
            \/ RLess([num |-> 1, den |-> 2], DocIoRatio(ps))
         THEN DocFirstFair(ps)
         ELSE DocTop(1, ps)

\* the quotient of a recommendation's expected_avg_wait before the penalty
WaitValue(e) == Ratio(e.num, e.den)

\* C11: for every non-empty workload select_scheduler returns the algorithm
\* of the documented procedure (stable ranking of the seven estimates, top 3,
\* priority rule, interactive / I/O rule, else the best) with that
\* algorithm's estimate as expected_avg_wait; five processes of burst 100
\* and priority 5, not I/O-bound, give SRTF with expected_avg_wait 100.
C11_SelectorProcedure ==
    (pc = "selected" /\ processes # <<>>) =>
        /\ recommendation.scheduler.algorithm = DocChoice(processes)
        /\ recommendation.algorithm_name = DisplayName(DocChoice(processes))
        /\ WaitValue(recommendation.expected_avg_wait)
              = DocEstimate(DocChoice(processes), processes)
        /\ recommendation.expected_avg_wait.penalized
              = DocPenalized(DocChoice(processes), processes)
        /\ SameInput(processes, ScenarioD) =>
              /\ recommendation.algorithm_name = "SRTF"
              /\ WaitValue(recommendation.expected_avg_wait)
                    = [num |-> 100, den |-> 1]

\* the selector has answered for a crowd in which MLFQ, third in the
\* ranking, is preferred to the best estimate
C11_Witness ==
    /\ pc = "selected"
    /\ Len(processes) > 10
    /\ recommendation.scheduler.algorithm = "MLFQ"
    /\ DocTop(1, processes) # "MLFQ"

\* the workload is interactive or more than half of it is I/O-bound
DocFairPreferred(ps) ==
    \/ DocInteractive(ps)
    \/ RLess([num |-> 1, den |-> 2], DocIoRatio(ps))

C13_NoPriorityWithoutCriteria ==
    (pc = "selected" /\ processes # <<>> /\ ~DocPriorityOk(processes)) =>
        /\ recommendation.scheduler.algorithm
              \notin {"Priority", "PreemptivePriority"}
        /\ recommendation.algorithm_name
              \notin {"Priority", "Preemptive Priority"}

\* C14: select_scheduler runs no scheduler and leaves every input process
\* unchanged; the scheduler it returns is freshly constructed: empty queue,
\* clock 0, empty Gantt log, no context switches.
C14_SelectorFrame ==
    [][(pc = "idle" /\ pc' = "selected") =>
        /\ processes' = processes
        /\ UNCHANGED <<ready_queue, circular_queue, queues, current_time,
                       gantt_chart, context_switches, running_process,
                       result>>
        /\ recommendation'.scheduler.ready_queue = <<>>
        /\ recommendation'.scheduler.current_time = 0
        /\ recommendation'.scheduler.gantt_chart = <<>>
        /\ recommendation'.scheduler.context_switches = 0
        /\ recommendation'.scheduler.running_process = None
      ]_vars

\* the selector has answered for processes that an earlier run terminated
C14_Witness ==
    /\ pc = "selected"
    /\ Len(processes) = 2
    /\ \A i \in 1..2 : /\ processes[i].state = "TERMINATED"
                       /\ processes[i].remaining_time = 0
                       /\ processes[i].completion_time > 0
    /\ recommendation.scheduler.algorithm \in Algorithms
    /\ recommendation.scheduler.gantt_chart = <<>>

\* a result the caller holds, as it reads now: create_result stores the
\* caller's process list itself, so the per-process fields are those of the
\* Process objects as they are now
Seen(r) == [r EXCEPT !.processes = processes]

\* C15: a SchedulingResult does not change after schedule() returned it: a
\* later schedule() call on the same process objects leaves the Gantt
\* chart, context_switches, total_time and the per-process metrics read
\* through result.processes of every earlier result as they were.
C15_ResultNeverMutated ==
    \A k \in 1..Len(history) :
        LET then == history[k].result
            now == Seen(history[k].result)
        IN /\ now.gantt_chart = then.gantt_chart
           /\ now.context_switches = then.context_switches
           /\ now.total_time = then.total_time
           /\ now.processes = then.processes

\* C16: schedule() resets the scheduler and every process first, so a run
\* on the same instance again, or after another scheduler has run on the
\* same processes, returns what the run on fresh objects returned: the same
\* Gantt chart, context_switches, total_time and per-process metrics.
C16_RunsRepeat ==
    /\ (pc = "loop" /\ iterations = 0) =>
          /\ \A i \in 1..Len(processes) :
                processes[i] = NewProcess(processes[i].pid,
                                          processes[i].burst_time,
                                          processes[i].priority,
                                          processes[i].arrival_time,
                                          processes[i].io_bound)
          /\ ready_queue = <<>> /\ circular_queue = <<>>
          /\ \A l \in 1..Len(queues) : queues[l] = <<>>
          /\ current_time = 0 /\ gantt_chart = <<>>
          /\ context_switches = 0 /\ running_process = None
    /\ pc = "returned" =>
          \A k \in 1..Len(history) :
              history[k].config = CurrentConfig => result = history[k].result

\* a scheduler has run a second time on processes that another scheduler
\* ran in between, with a non-trivial schedule
C16_Witness ==
    /\ pc = "returned"
    /\ Len(history) = 2
    /\ history[1].config = CurrentConfig
    /\ history[2].config # CurrentConfig
    /\ history[2].result.gantt_chart # result.gantt_chart
    /\ Len(result.gantt_chart) >= 2

\* the number of adjacent Gantt intervals of different processes
OccupantChanges(g) ==
    Cardinality({k \in 1..(Len(g) - 1) : g[k][1] # g[k + 1][1]})

\* C17: for each of the seven schedulers the reported context_switches is
\* the number of changes of the process occupying the CPU: the number of
\* adjacent Gantt intervals whose pids differ, the first dispatch not counted.
C17_SwitchesAreOccupantChanges ==
    pc = "returned" =>
        result.context_switches = OccupantChanges(result.gantt_chart)

\* the largest completion time of a non-empty process list
LastCompletion(ps) ==
    CHOOSE t \in {ps[i].completion_time : i \in 1..Len(ps)} :
        \A i \in 1..Len(ps) : ps[i].completion_time <= t

\* C18: for a non-empty input total_time is the largest completion time,
\* idle time included; the bursts sum to at most total_time, so
\* cpu_utilization is at most 100.
C18_Makespan ==
    (pc = "returned" /\ processes # <<>>) =>
        /\ result.total_time = LastCompletion(result.processes)
        /\ TotalBurst(result.processes) <= result.total_time
        /\ result.cpu_utilization.den > 0
        /\ result.cpu_utilization.num <= 100 * result.cpu_utilization.den
        /\ result.cpu_utilization.num * result.total_time
              = 100 * TotalBurst(result.processes) * result.cpu_utilization.den

\* a run has returned in which the CPU was idle before an arrival
C18_Witness ==
    /\ pc = "returned"
    /\ Len(processes) >= 2
    /\ TotalBurst(result.processes) < result.total_time
    /\ result.cpu_utilization.num < 100 * result.cpu_utilization.den

(* ---------------------------------------------------------------------- *)
(* Process lists the caller did not validate                              *)
(* ---------------------------------------------------------------------- *)
\* process lists in which a burst_time may be 0: Process takes any integer
\* and no scheduler checks it
ZeroBurstLists ==
    UNION {
      {[i \in 1..n |-> NewProcess(i, bu[i], pr[i], ar[i], FALSE)] :
          ar \in [1..n -> 0..MaxArrival],
          bu \in [1..n -> 0..MaxBurst],
          pr \in [1..n -> 0..MaxPriority]} : n \in 0..MaxProcs}

ZeroBurstInit == \E c \in Configs : \E ps \in ZeroBurstLists : InitWith(c, ps)

ZeroBurstSpec == ZeroBurstInit /\ [][Next]_vars

\* C19: under every scheduler a process with burst_time <= 0 completes at
\* its arrival time with waiting_time = 0 and response_time = 0 and has no
\* interval in the Gantt chart.
C19_ZeroBurstInstant ==
    pc = "returned" =>
        \A i \in 1..Len(result.processes) :
            result.processes[i].burst_time <= 0 =>
                /\ result.processes[i].completion_time
                      = result.processes[i].arrival_time
                /\ result.processes[i].waiting_time = 0
                /\ result.processes[i].response_time = 0
                /\ \A k \in 1..Len(result.gantt_chart) :
                       result.gantt_chart[k][1] # result.processes[i].pid

(* ---------------------------------------------------------------------- *)
(* Race-condition demo: SharedCounter and RaceConditionDemo               *)
(* ---------------------------------------------------------------------- *)
schedulerVars ==
    <<configVars, processes, pc, ready_queue, circular_queue, queues,
      current_time, gantt_chart, context_switches, running_process,
      remaining, completed_count, last_aging_time, last_boost_time,
      current_level, iterations, result, recommendation, history>>

TestTypes == {"without_mutex", "with_mutex"}

\* a started worker thread: its position in worker(), the locals of the
\* increment it is in, and the number of increments it has finished
NewWorker == [pc |-> "loop", current |-> 0, ops |-> 0, done |-> 0]

\* a worker that calls increment_unsafe whatever the demo
IncrementEntryUnsafe(tt) == "read"

\* the first step of the method worker() calls: increment_safe enters
\* "with self.mutex", increment_unsafe reads the value directly
IncrementEntry(tt) == IF tt = "with_mutex" THEN "acquire" ELSE "read"

\* the demo has created its counter and thread list and is about to start
\* the workers
DemoInit ==
    /\ SchedulerWith(DefaultConfig, <<>>)
    /\ EngineWith(0)
    /\ test_type \in TestTypes
    /\ num_threads \in 0..MaxThreads
    /\ increments \in 0..MaxIncrements
    /\ counter = NewCounter
    /\ threads = <<>>
    /\ joined = 0
    /\ demo_pc = "running"
    /\ race_result = NoRaceResult

\* threads.append(t); t.start()
StartThread ==
    /\ demo_pc = "running"
    /\ Len(threads) < num_threads
    /\ threads' = Append(threads, NewWorker)
    /\ UNCHANGED <<schedulerVars, engineVars, test_type, num_threads, increments, counter,
                   joined, demo_pc, race_result>>

\* for _ in range(increments): the next call of the increment method, or
\* the end of the thread
WorkerLoop(w) ==
    /\ threads[w].pc = "loop"
    /\ threads' = [threads EXCEPT ![w].pc =
                      IF threads[w].done < increments
                          THEN IncrementEntry(test_type) ELSE "finished"]
    /\ UNCHANGED <<schedulerVars, engineVars, test_type, num_threads, increments, counter,
                   joined, demo_pc, race_result>>

\* with self.mutex: blocks until the lock is free
Acquire(w) ==
    /\ threads[w].pc = "acquire"
    /\ counter.mutex = 0
    /\ counter' = [counter EXCEPT !.mutex = w]
    /\ threads' = [threads EXCEPT ![w].pc = "read"]
    /\ UNCHANGED <<schedulerVars, engineVars, test_type, num_threads, increments, joined,
                   demo_pc, race_result>>

\* current = self.value
ReadValue(w) ==
    /\ threads[w].pc = "read"
    /\ threads' = [threads EXCEPT ![w].pc = "write",
                                  ![w].current = counter.value]
    /\ UNCHANGED <<schedulerVars, engineVars, test_type, num_threads, increments, counter,
                   joined, demo_pc, race_result>>

\* time.sleep(0.0001); self.value = current + 1
WriteValue(w) ==
    /\ threads[w].pc = "write"
    /\ counter' = [counter EXCEPT !.value = threads[w].current + 1]
    /\ threads' = [threads EXCEPT ![w].pc = "load"]
    /\ UNCHANGED <<schedulerVars, engineVars, test_type, num_threads, increments, joined,
                   demo_pc, race_result>>

\* self.operations += 1, the load
LoadOperations(w) ==
    /\ threads[w].pc = "load"
    /\ threads' = [threads EXCEPT ![w].pc = "store",
                                  ![w].ops = counter.operations]
    /\ UNCHANGED <<schedulerVars, engineVars, test_type, num_threads, increments, counter,
                   joined, demo_pc, race_result>>

\* self.operations += 1, the store; increment_unsafe returns here,
\* increment_safe still holds the lock
StoreOperations(w) ==
    /\ threads[w].pc = "store"
    /\ counter' = [counter EXCEPT !.operations = threads[w].ops + 1]
    /\ threads' = IF counter.mutex = w
                     THEN [threads EXCEPT ![w].pc = "release"]
                     ELSE [threads EXCEPT ![w].pc = "loop",
                                          ![w].done = threads[w].done + 1]
    /\ UNCHANGED <<schedulerVars, engineVars, test_type, num_threads, increments, joined,
                   demo_pc, race_result>>

\* the end of the with block releases the lock; increment_safe returns
Release(w) ==
    /\ threads[w].pc = "release"
    /\ counter' = [counter EXCEPT !.mutex = 0]
    /\ threads' = [threads EXCEPT ![w].pc = "loop",
                                  ![w].done = threads[w].done + 1]
    /\ UNCHANGED <<schedulerVars, engineVars, test_type, num_threads, increments, joined,
                   demo_pc, race_result>>

\* for t in threads: t.join(), once every thread has been started
JoinThread ==
    /\ demo_pc = "running"
    /\ Len(threads) = num_threads
    /\ joined < num_threads
    /\ threads[joined + 1].pc = "finished"
    /\ joined' = joined + 1
    /\ UNCHANGED <<schedulerVars, engineVars, test_type, num_threads, increments, counter,
                   threads, demo_pc, race_result>>

\* actual = counter.value and the RaceConditionResult built from it
Report ==
    /\ demo_pc = "running"
    /\ Len(threads) = num_threads
    /\ joined = num_threads
    /\ race_result' =
          [test_type |-> test_type, num_threads |-> num_threads,
           increments_per_thread |-> increments,
           expected_value |-> num_threads * increments,
           actual_value |-> counter.value,
           race_detected |-> counter.value # num_threads * increments,
           lost_updates |-> num_threads * increments - counter.value]
    /\ demo_pc' = "returned"
    /\ UNCHANGED <<schedulerVars, engineVars, test_type, num_threads, increments, counter,
                   threads, joined>>

DemoNext ==
    \/ StartThread
    \/ \E w \in 1..Len(threads) :
          \/ WorkerLoop(w)
          \/ Acquire(w)
          \/ ReadValue(w)
          \/ WriteValue(w)
          \/ LoadOperations(w)
          \/ StoreOperations(w)
          \/ Release(w)
    \/ JoinThread
    \/ Report

DemoSpec == DemoInit /\ [][DemoNext]_vars

\* worker w is inside the read-modify-write of an increment
InIncrement(w) == threads[w].pc \in {"read", "write", "load", "store", "release"}

\* C20: with the mutex the final counter value is num_threads * increments
\* in every interleaving, so run_with_mutex reports no race; no two workers
\* are inside the read-modify-write at once, and the value a worker read is
\* still the counter's value when it writes.
C20_MutexExact ==
    test_type = "with_mutex" =>
        /\ demo_pc = "returned" =>
              /\ race_result.actual_value = num_threads * increments
              /\ race_result.expected_value = num_threads * increments
              /\ ~race_result.race_detected
              /\ race_result.lost_updates = 0
        /\ \A v, w \in 1..Len(threads) :
              (v # w /\ InIncrement(v)) => ~InIncrement(w)
        /\ \A w \in 1..Len(threads) :
              threads[w].pc = "write" => threads[w].current = counter.value

\* run_with_mutex has returned after several workers made several
\* increments each
C20_Witness ==
    /\ test_type = "with_mutex"
    /\ demo_pc = "returned"
    /\ num_threads >= 2
    /\ increments >= 2
    /\ race_result.actual_value = num_threads * increments

\* a worker waits for the lock while another is between its read and write
C20_WitnessContention ==
    /\ test_type = "with_mutex"
    /\ \E v, w \in 1..Len(threads) :
          /\ threads[v].pc = "acquire"
          /\ threads[w].pc = "write"
          /\ threads[w].done >= 1

(* ---------------------------------------------------------------------- *)
(* Resource requests and deadlock detection through SimulationEngine      *)
(* ---------------------------------------------------------------------- *)
otherVars == <<schedulerVars, syncVars>>

\* the created processes, as test_deadlock_demo creates them
EngineProcesses ==
    [i \in 1..EngineProcs |-> NewProcess(i, 100, 5, 0, FALSE)]

\* the engine after the processes have been created
EngineInit ==
    /\ SchedulerWith(DefaultConfig, EngineProcesses)
    /\ NoDemo
    /\ EngineWith(EngineProcs)

\* the index of the first edge from -> to of the given type, 0 if none
EdgeIndex(edges, from, to, type) ==
    IF \E k \in 1..Len(edges) :
          /\ edges[k].from_node = from
          /\ edges[k].to_node = to
          /\ edges[k].edge_type = type
       THEN CHOOSE k \in 1..Len(edges) :
               /\ edges[k].from_node = from
               /\ edges[k].to_node = to
               /\ edges[k].edge_type = type
               /\ \A j \in 1..(k - 1) :
                     ~(/\ edges[j].from_node = from
                       /\ edges[j].to_node = to
                       /\ edges[j].edge_type = type)
       ELSE 0

\* ResourceAllocationGraph.add_resource(rid) for a missing node: one instance
WithResourceNode(g, rid) ==
    IF g.resource_nodes[rid].present THEN g
    ELSE [g EXCEPT !.resource_nodes[rid] =
                      [present |-> TRUE, available_instances |-> 1]]

\* ResourceAllocationGraph.add_process(pid) for a missing node
WithProcessNode(g, pid) ==
    [g EXCEPT !.process_nodes = g.process_nodes \cup {pid}]

\* ResourceAllocationGraph.add_request_edge
AddRequestEdge(g, pid, rid, count) ==
    LET h == WithResourceNode(WithProcessNode(g, pid), rid)
        k == EdgeIndex(h.edges, <<"P", pid>>, <<"R", rid>>, "request")
    IN  IF k # 0
           THEN [h EXCEPT !.edges[k].count = h.edges[k].count + count]
           ELSE [h EXCEPT !.edges =
                    Append(h.edges,
                           [from_node |-> <<"P", pid>>, to_node |-> <<"R", rid>>,
                            edge_type |-> "request", count |-> count])]

\* ResourceAllocationGraph.add_assignment_edge
AddAssignmentEdge(g, rid, pid, count) ==
    LET h == WithProcessNode(WithResourceNode(g, rid), pid)
        k == EdgeIndex(h.edges, <<"R", rid>>, <<"P", pid>>, "assignment")
    IN  IF k # 0
           THEN [h EXCEPT !.edges[k].count = h.edges[k].count + count]
           ELSE [h EXCEPT
                    !.edges =
                        Append(h.edges,
                               [from_node |-> <<"R", rid>>,
                                to_node |-> <<"P", pid>>,
                                edge_type |-> "assignment", count |-> count]),
                    !.resource_nodes[rid].available_instances =
                        h.resource_nodes[rid].available_instances - count]

\* Resource.is_available
IsAvailable(r, count) == r.available_instances >= count

\* the process whose turn it is: the scenario lets P1..Pn request in turn
NextRequester == (Len(allocation_history) % EngineProcs) + 1

\* SimulationEngine.request_resource(pid, rid) with the default count 1:
\* ResourceManager.request, then the edge added to the graph
RequestResource(pid, rid) ==
    /\ Len(allocation_history) < EngineProcs * MaxRequestsEach
    /\ pid = NextRequester
    /\ LET resource == resources[rid]
           success == IsAvailable(resource, 1)
       IN  /\ resources' =
                 IF success
                 THEN [resources EXCEPT
                         ![rid].available_instances =
                             resource.available_instances - 1,
                         ![rid].allocated_to[pid] =
                             resource.allocated_to[pid] + 1,
                         ![rid].waiting_queue =
                             RemoveFirst(resource.waiting_queue, pid)]
                 ELSE [resources EXCEPT
                         ![rid].waiting_queue =
                             IF pid \in Range(resource.waiting_queue)
                                 THEN resource.waiting_queue
                                 ELSE Append(resource.waiting_queue, pid)]
           /\ process_resources' =
                 IF success
                 THEN [process_resources EXCEPT
                         ![pid].allocated_resources[rid] =
                             process_resources[pid].allocated_resources[rid] + 1]
                 ELSE [process_resources EXCEPT
                         ![pid].requested_resources[rid] =
                             process_resources[pid].requested_resources[rid] + 1]
           /\ allocation_history' =
                 Append(allocation_history,
                        [event_type |-> IF success THEN "allocate" ELSE "request",
                         process_id |-> pid, resource_id |-> rid,
                         count |-> 1, success |-> success])
           /\ rag' = IF success THEN AddAssignmentEdge(rag, rid, pid, 1)
                                ELSE AddRequestEdge(rag, pid, rid, 1)
    /\ UNCHANGED <<otherVars, deadlock_report>>

\* the elements of s in order, each kept at its first occurrence only
RECURSIVE Distinct(_)
Distinct(s) ==
    IF s = <<>> THEN <<>>
    ELSE LET d == Distinct(SubSeq(s, 1, Len(s) - 1))
         IN  IF s[Len(s)] \in Range(d) THEN d ELSE Append(d, s[Len(s)])

\* ResourceAllocationGraph.get_request_edges()
RequestEdges(g) == SelectSeq(g.edges, LAMBDA e : e.edge_type = "request")

\* the holders of the resources pid requests, in the order the wait-for
\* graph lists them: request edges in order, for each the assignment edges
\* of its resource in order, without pid itself and without repetition
RECURSIVE HoldersFrom(_, _, _)
HoldersFrom(g, pid, reqs) ==
    IF reqs = <<>> THEN <<>>
    ELSE LET req == Head(reqs)
             assigned ==
                 SelectSeq(g.edges,
                           LAMBDA e : /\ e.edge_type = "assignment"
                                      /\ e.from_node = req.to_node
                                      /\ e.to_node # <<"P", pid>>)
             found == IF req.from_node = <<"P", pid>>
                         THEN [k \in 1..Len(assigned) |-> assigned[k].to_node[2]]
                         ELSE <<>>
         IN  found \o HoldersFrom(g, pid, Tail(reqs))

\* ResourceAllocationGraph.get_wait_for_graph: the keys in insertion order
\* and the list of each key
WaitForKeys(g) ==
    Distinct([k \in 1..Len(RequestEdges(g)) |-> RequestEdges(g)[k].from_node[2]])

WaitFor(g, pid) == Distinct(HoldersFrom(g, pid, RequestEdges(g)))

\* the position of x in the path
PathIndex(path, x) == CHOOSE k \in 1..Len(path) : path[k] = x

\* dfs(pid) of DeadlockDetector.detect: the cycle found (empty if none) and
\* the visited set afterwards; path is the path before pid is appended, and
\* rec_stack always holds exactly the elements of the path
RECURSIVE Dfs(_, _, _, _)
RECURSIVE DfsNeighbors(_, _, _, _)
Dfs(g, pid, visited, path) ==
    DfsNeighbors(g, WaitFor(g, pid), visited \cup {pid}, Append(path, pid))

DfsNeighbors(g, neighbors, visited, path) ==
    IF neighbors = <<>> THEN [cycle |-> <<>>, visited |-> visited]
    ELSE LET neighbor == Head(neighbors)
         IN  IF neighbor \notin visited
             THEN LET sub == Dfs(g, neighbor, visited, path)
                  IN  IF sub.cycle # <<>> THEN sub
                      ELSE DfsNeighbors(g, Tail(neighbors), sub.visited, path)
             ELSE IF neighbor \in Range(path)
             THEN [cycle |-> Append(SubSeq(path, PathIndex(path, neighbor),
                                           Len(path)), neighbor),
                   visited |-> visited]
             ELSE DfsNeighbors(g, Tail(neighbors), visited, path)

\* the loop over wait_for.keys() of DeadlockDetector.detect
RECURSIVE DetectFrom(_, _, _)
DetectFrom(g, keys, visited) ==
    IF keys = <<>> THEN <<>>
    ELSE IF Head(keys) \in visited THEN DetectFrom(g, Tail(keys), visited)
    ELSE LET found == Dfs(g, Head(keys), visited, <<>>)
         IN  IF found.cycle # <<>> THEN found.cycle
             ELSE DetectFrom(g, Tail(keys), found.visited)

\* DeadlockDetector.detect: the cycle of process ids, empty for None
Detect(g) == DetectFrom(g, WaitForKeys(g), {})

\* the resources DeadlockDetector._create_deadlock_info lists between pid
\* and next_pid: every resource pid requests of which next_pid holds an
\* instance, in the order of pid's request edges
ChainResources(g, pid, next_pid) ==
    LET reqs == SelectSeq(RequestEdges(g),
                          LAMBDA e : e.from_node = <<"P", pid>>)
        held == SelectSeq(reqs,
                    LAMBDA e : EdgeIndex(g.edges, e.to_node,
                                         <<"P", next_pid>>, "assignment") # 0)
    IN  [k \in 1..Len(held) |-> held[k].to_node]

\* the chain of _create_deadlock_info for the first n links of the cycle
RECURSIVE Chain(_, _, _)
Chain(g, process_cycle, n) ==
    IF n = 0 THEN <<>>
    ELSE Chain(g, process_cycle, n - 1)
            \o <<<<"P", process_cycle[n]>>>>
            \o ChainResources(g, process_cycle[n], process_cycle[n + 1])

\* DeadlockDetector._create_deadlock_info as check_deadlock returns it
CreateDeadlockInfo(g, process_cycle) ==
    LET chain == Chain(g, process_cycle, Len(process_cycle) - 1)
    IN  [called |-> TRUE, detected |-> TRUE,
         processes |-> Range(SubSeq(process_cycle, 1, Len(process_cycle) - 1)),
         resources |-> {chain[k][2] : k \in {j \in 1..Len(chain) :
                                                  chain[j][1] = "R"}},
         cycle |-> Append(chain, <<"P", process_cycle[Len(process_cycle)]>>)]

\* SimulationEngine.check_deadlock
CheckDeadlock ==
    /\ deadlock_report' =
          IF Detect(rag) = <<>>
             THEN [NoDeadlockReport EXCEPT !.called = TRUE]
             ELSE CreateDeadlockInfo(rag, Detect(rag))
    /\ UNCHANGED <<otherVars, resources, process_resources, rag,
                   allocation_history>>

EngineNext ==
    \/ \E pid \in 1..EngineProcs : \E rid \in ResourceIds :
          RequestResource(pid, rid)
    \/ CheckDeadlock

EngineSpec == EngineInit /\ [][EngineNext]_vars

\* the requests of the deadlock scenario: Pi requests Ri, then Pi requests
\* the resource of the next process
CircularRequests ==
    [k \in 1..(2 * EngineProcs) |->
        IF k <= EngineProcs THEN <<k, k>>
        ELSE <<k - EngineProcs, ((k - EngineProcs) % EngineProcs) + 1>>]

\* the requests made so far, as (pid, rid) pairs
RequestsMade ==
    [k \in 1..Len(allocation_history) |->
        <<allocation_history[k].process_id, allocation_history[k].resource_id>>]

\* C21: after the scenario's requests through the engine with its default
\* resources the four second requests are not granted, and check_deadlock()
\* finds a cycle containing all four processes.
C21_CircularWaitDetected ==
    RequestsMade = CircularRequests =>
        /\ \A k \in (EngineProcs + 1)..(2 * EngineProcs) :
              ~allocation_history[k].success
        /\ Detect(rag) # <<>>
        /\ CreateDeadlockInfo(rag, Detect(rag)).processes = 1..EngineProcs

\* the positions of ps whose process has not been admitted to any queue and
\* has arrived by time t
DueBy(ps, t) ==
    {i \in 1..Len(ps) : ps[i].state = "NEW" /\ ps[i].arrival_time <= t}

\* C22: in Round Robin, after a dispatch ending at clock t every process
\* that has arrived by t and is not yet queued is appended to the queue in
\* ascending (arrival_time, pid) order before the just-run process, if it is
\* not complete, is appended; the next dispatch takes the head of the queue,
\* so these arrivals run before the preempted process runs again.
C22_ArrivalsBeforeRequeue ==
    [][/\ (algorithm = "RR" /\ pc = "run" /\ pc' = "loop") =>
           LET due == DueBy(processes, current_time')
               old == Len(circular_queue)
               requeued == processes'[running_process].remaining_time > 0
               new == circular_queue'
           IN  /\ Len(new) = old + Cardinality(due) + (IF requeued THEN 1 ELSE 0)
               /\ SubSeq(new, 1, old) = circular_queue
               /\ {new[k] : k \in (old + 1)..(old + Cardinality(due))} = due
               /\ \A j, k \in (old + 1)..(old + Cardinality(due)) :
                     j < k => LexLess(ArrivalKey(processes)[new[j]],
                                      ArrivalKey(processes)[new[k]])
               /\ requeued => new[Len(new)] = running_process
               /\ ~requeued => running_process \notin Range(new)
               /\ DueBy(processes', current_time') = {}
       /\ (algorithm = "RR" /\ pc = "loop" /\ pc' = "run"
              /\ circular_queue # <<>>) =>
           /\ running_process' = Head(circular_queue)
           /\ SubSeq(circular_queue', 1, Len(circular_queue) - 1)
                 = Tail(circular_queue)
      ]_vars

\* a process that arrived during the quantum of a preempted process is
\* queued ahead of it
C22_Witness ==
    /\ algorithm = "RR"
    /\ pc = "loop"
    /\ Len(processes) = 2
    /\ circular_queue = <<2, 1>>
    /\ gantt_chart = <<<<1, 0, time_quantum>>>>
    /\ processes[1].remaining_time > 0
    /\ processes[2].arrival_time > 0

\* the positions of ps whose process has arrived by time t and is not
\* terminated
Waiting(ps, t) ==
    {i \in 1..Len(ps) : ps[i].arrival_time <= t /\ ps[i].state # "TERMINATED"}

\* position i has the least key among the positions of set
IsLeast(i, set, key) ==
    i \in set /\ \A j \in set \ {i} : LexLess(key[i], key[j])

\* C23: whenever SJF (non-preemptive Priority) dispatches, the dispatched
\* process has the minimum (burst_time, arrival_time, pid) (resp. (priority,
\* arrival_time, pid)) among the processes that have arrived by the current
\* clock and are not terminated.
C23_DispatchMinimum ==
    [][(algorithm \in {"SJF", "Priority"} /\ pc = "loop" /\ pc' = "run") =>
          /\ current_time' = current_time
          /\ IsLeast(running_process', Waiting(processes, current_time),
                     [i \in 1..Len(processes) |->
                         <<IF algorithm = "SJF" THEN processes[i].burst_time
                                                ELSE processes[i].priority,
                           processes[i].arrival_time, processes[i].pid>>])
      ]_vars

\* SJF has dispatched the shorter of two waiting processes although it is
\* the later one in arrival and pid order
C23_Witness ==
    /\ algorithm = "SJF"
    /\ pc = "run"
    /\ Len(processes) = 3
    /\ running_process = 3
    /\ processes[2].state = "READY"
    /\ processes[2].arrival_time < processes[3].arrival_time
    /\ processes[3].burst_time < processes[2].burst_time

\* Priority has dispatched the process with the lower priority value
C23_WitnessPriority ==
    /\ algorithm = "Priority"
    /\ pc = "run"
    /\ Len(processes) = 3
    /\ running_process = 3
    /\ processes[2].state = "READY"
    /\ processes[2].arrival_time < processes[3].arrival_time
    /\ processes[3].priority < processes[2].priority

\* the arrival times of the processes of ps that arrive after time t
ArrivalsAfter(ps, t) ==
    {ps[i].arrival_time : i \in {j \in 1..Len(ps) : ps[j].arrival_time > t}}

\* C24: in Preemptive Priority the process put on the CPU has the minimum
\* (priority - aging_counter, arrival_time, pid) among the arrived,
\* unfinished processes, and its interval ends at the earliest of the next
\* arrival, the next aging tick and its completion; the CPU is then given
\* up, so that the choice is made again.
C24_PreemptivePriorityChoice ==
    [][/\ (algorithm = "PreemptivePriority" /\ pc = "loop" /\ pc' = "run") =>
             IsLeast(running_process', Waiting(processes', current_time'),
                     [i \in 1..Len(processes) |->
                         <<processes'[i].priority - processes'[i].aging_counter,
                           processes'[i].arrival_time, processes'[i].pid>>])
       /\ (algorithm = "PreemptivePriority" /\ pc = "run" /\ pc' = "loop") =>
             LET p == processes[running_process]
                 end == SetMin(ArrivalsAfter(processes, current_time)
                                  \cup {last_aging_time + aging_interval,
                                        current_time + p.remaining_time})
             IN  /\ end > current_time
                 /\ current_time' = end
                 /\ gantt_chart' =
                       Append(gantt_chart, <<p.pid, current_time, end>>)
                 /\ running_process' = None
                 /\ \/ processes'[running_process].state = "TERMINATED"
                    \/ running_process \in Range(ready_queue')
      ]_vars

\* a process with a lower priority value has arrived and taken the CPU from
\* an unfinished one
C24_Witness ==
    /\ algorithm = "PreemptivePriority"
    /\ pc = "run"
    /\ Len(processes) = 2
    /\ running_process = 2
    /\ processes[2].arrival_time > 0
    /\ gantt_chart = <<<<1, 0, processes[2].arrival_time>>>>
    /\ processes[1].remaining_time > 0
    /\ processes[2].priority < processes[1].priority

\* aging has decided the choice: the process on the CPU has the greater
\* priority value but not the greater effective priority
C24_WitnessAging ==
    /\ algorithm = "PreemptivePriority"
    /\ pc = "run"
    /\ Len(processes) = 2
    /\ \E i, j \in 1..2 :
          /\ running_process = i
          /\ processes[j].state = "READY"
          /\ processes[j].priority < processes[i].priority

\* C25: at an aging tick aging_counter grows by exactly aging_amount for
\* every process waiting in the ready set and for no other process, in
\* particular not for the process that occupied the CPU up to the tick;
\* aging_counter never decreases during a run.
C25_AgingOnlyWaiting ==
    [][(algorithm = "PreemptivePriority" /\ pc \in {"loop", "run"}) =>
          \A i \in 1..Len(processes) :
             LET in_ready_set ==
                     \/ processes[i].state = "READY"
                     \/ /\ processes[i].state = "NEW"
                        /\ processes[i].arrival_time <= current_time
                 occupant ==
                     /\ gantt_chart # <<>>
                     /\ gantt_chart[Len(gantt_chart)][3] = current_time
                     /\ gantt_chart[Len(gantt_chart)][1] = processes[i].pid
                 was_waiting == in_ready_set /\ ~occupant
                 tick == /\ pc = "loop"
                         /\ last_aging_time' = current_time
                         /\ last_aging_time # current_time
             IN  /\ processes'[i].aging_counter >= processes[i].aging_counter
                 /\ processes'[i].aging_counter # processes[i].aging_counter =>
                       /\ tick
                       /\ was_waiting
                       /\ processes'[i].aging_counter
                             = processes[i].aging_counter + aging_amount
                 /\ (tick /\ was_waiting) =>
                       processes'[i].aging_counter
                          = processes[i].aging_counter + aging_amount
      ]_vars

\* C26: under MLFQ a process is admitted at level 0; a process that has run
\* the full quantum of its level without completing is re-queued one level
\* lower, unless it is on the lowest level, where it stays; a process that
\* completes or is cut short keeps its level; queue_level stays within
\* 0..num_levels-1.
C26_Demotion ==
    [][algorithm = "MLFQ" =>
          /\ \A i \in 1..Len(processes) :
                /\ processes'[i].queue_level \in 0..(num_levels - 1)
                /\ (processes[i].state = "NEW" /\ processes'[i].state = "READY")
                      => processes'[i].queue_level = 0
          /\ pc = "run" =>
                LET i == running_process
                    level == processes[i].queue_level
                    configured == time_quantums[level + 1]
                    ran == current_time' - current_time
                    exhausted == /\ configured > 0
                                 /\ ran = configured
                    lower == IF level = num_levels - 1 THEN level
                             ELSE level + 1
                IN  /\ level = current_level
                    /\ ran <= processes[i].remaining_time
                    /\ configured > 0 => ran <= configured
                    /\ IF processes'[i].state = "TERMINATED"
                       THEN processes'[i].queue_level = level
                       ELSE /\ processes'[i].state = "READY"
                            /\ processes'[i].queue_level
                                  = IF exhausted THEN lower ELSE level
                            /\ i \in Range(queues'[processes'[i].queue_level
                                                    + 1])
      ]_vars

\* a process has used the full quantum of level 0 and of level 1 and is
\* queued on the lowest of three levels
C26_Witness ==
    /\ algorithm = "MLFQ"
    /\ pc = "loop"
    /\ num_levels = 3
    /\ \E i \in 1..Len(processes) :
          /\ processes[i].queue_level = 2
          /\ processes[i].state = "READY"
          /\ queues[3] = <<i>>

\* a process on the lowest of two levels has used the full quantum of that
\* level without completing and is queued on the same level again
C26_WitnessLowest ==
    /\ algorithm = "MLFQ"
    /\ pc = "loop"
    /\ time_quantums = <<1, 1>>
    /\ Len(gantt_chart) = 3
    /\ Len(processes) = 2
    /\ processes[1].queue_level = 1
    /\ processes[1].remaining_time = 1
    /\ queues[2] = <<1>>

\* a process on the lowest level has been cut short by an arrival and is
\* queued on the same level again
C26_WitnessCutShort ==
    /\ algorithm = "MLFQ"
    /\ pc = "loop"
    /\ time_quantums = <<1, 1, 0>>
    /\ gantt_chart = <<<<1, 0, 1>>, <<1, 1, 2>>, <<1, 2, 3>>>>
    /\ processes[1].queue_level = 2
    /\ processes[1].remaining_time = 1
    /\ queues = <<<<2>>, <<>>, <<1>>>>

\* the end of the latest Gantt interval of the process at position i, 0 if
\* it has not run
RECURSIVE LastRunEnd(_, _)
LastRunEnd(chart, i) ==
    IF chart = <<>> THEN 0
    ELSE IF chart[Len(chart)][1] = processes[i].pid
    THEN chart[Len(chart)][3]
    ELSE LastRunEnd(SubSeq(chart, 1, Len(chart) - 1), i)

\* C27: the MLFQ priority boost is periodic: no unfinished process has been
\* waiting in a queue of level > 0 for more than boost_interval without
\* being moved back to level 0.
C27_PeriodicBoost ==
    (algorithm = "MLFQ" /\ pc \in {"loop", "run", "exit"}) =>
        \A i \in 1..Len(processes) :
           (processes[i].state = "READY" /\ processes[i].queue_level > 0) =>
               current_time - LastRunEnd(gantt_chart, i) <= boost_interval

\* the processes that arrive strictly between two instants
ArrivalsWithin(from, to) ==
    {j \in 1..Len(processes) :
        from < processes[j].arrival_time /\ processes[j].arrival_time < to}

\* C28 as stated: on every level an MLFQ run is cut short at the first
\* arrival before the natural end of the quantum, so no arrival falls
\* strictly inside an MLFQ Gantt interval.
C28_NoArrivalInsideInterval ==
    algorithm = "MLFQ" =>
        \A k \in 1..Len(gantt_chart) :
           ArrivalsWithin(gantt_chart[k][2], gantt_chart[k][3]) = {}

\* C28 amended: a run dispatched from a level > 0 is cut short at the first
\* arrival before the natural end of its quantum, so no arrival falls
\* strictly inside its Gantt interval; a run dispatched from level 0 always
\* lasts min(quantum, remaining time), whatever arrives meanwhile.
C28_ArrivalCutsBelowTop ==
    [][(algorithm = "MLFQ" /\ pc = "run") =>
          LET p == processes[running_process]
              configured == time_quantums[current_level + 1]
              natural == IF configured = 0 THEN p.remaining_time
                         ELSE Min2(configured, p.remaining_time)
              inside == ArrivalsWithin(current_time, current_time + natural)
          IN  /\ gantt_chart'
                    = Append(gantt_chart, <<p.pid, current_time, current_time'>>)
              /\ (current_level > 0 /\ inside # {}) =>
                    current_time'
                       = SetMin({processes[j].arrival_time : j \in inside})
              /\ (current_level = 0 \/ inside = {}) =>
                    current_time' = current_time + natural
              /\ current_level > 0 =>
                    ArrivalsWithin(current_time, current_time') = {}
      ]_vars

\* a run on the lowest level has been cut short at the arrival of the
\* second process, which now heads level 0
C28_Witness ==
    /\ algorithm = "MLFQ"
    /\ pc = "loop"
    /\ Len(processes) = 2
    /\ gantt_chart # <<>>
    /\ gantt_chart[Len(gantt_chart)] = <<1, 2, processes[2].arrival_time>>
    /\ processes[1].remaining_time > 0
    /\ processes[1].queue_level = 2
    /\ processes[2].state = "READY"

\* a run on level 0 has lasted its whole quantum although the second
\* process arrived during it
C28_WitnessTopLevel ==
    /\ algorithm = "MLFQ"
    /\ pc = "loop"
    /\ Len(processes) = 2
    /\ gantt_chart = <<<<1, 0, 8>>>>
    /\ processes[2].arrival_time = 1
    /\ processes[2].state = "READY"

\* the number of places the process at position i takes in the queues
Occurrences(qs, i) ==
    Cardinality({lk \in (1..Len(qs)) \X (1..MaxProcs + MaxSelectorProcs) :
                    /\ lk[2] <= Len(qs[lk[1]])
                    /\ qs[lk[1]][lk[2]] = i})

\* C29: every process is in at most one MLFQ queue, the one of its
\* queue_level; a dispatch takes the head of the highest-priority non-empty
\* queue as it stands after the admissions and the boost of the pass: every
\* queue above the level of the dispatch is empty, a process that was
\* already queued headed the first non-empty queue, and a process admitted
\* in the same pass is the earliest arrival and found level 0 empty.
C29_HeadOfHighestQueue ==
    [][algorithm = "MLFQ" =>
          /\ \A i \in 1..Len(processes) :
                /\ Occurrences(queues', i) <= 1
                /\ \A l \in 1..num_levels :
                      i \in Range(queues'[l]) =>
                         /\ processes'[i].queue_level = l - 1
                         /\ processes'[i].state = "READY"
          /\ (pc = "loop" /\ pc' = "run") =>
                LET i == running_process'
                    due == {j \in 1..Len(processes) :
                               /\ processes[j].state = "NEW"
                               /\ processes[j].arrival_time <= current_time}
                IN  /\ processes'[i].queue_level = current_level'
                    /\ processes'[i].state = "RUNNING"
                    /\ Occurrences(queues', i) = 0
                    /\ \A l \in 1..current_level' : queues'[l] = <<>>
                    /\ IF i \in due
                       THEN /\ queues[1] = <<>>
                            /\ \A j \in due :
                                  LexLess(<<processes[i].arrival_time,
                                            processes[i].pid>>,
                                          <<processes[j].arrival_time,
                                            processes[j].pid>>) \/ j = i
                       ELSE /\ \E l \in 1..num_levels :
                                  /\ queues[l] # <<>>
                                  /\ Head(queues[l]) = i
                                  /\ \A m \in 1..(l - 1) : queues[m] = <<>>
                                  /\ l > 1 => due = {}
      ]_vars

\* a process is dispatched from level 1 while another one waits on level 2
C29_Witness ==
    /\ algorithm = "MLFQ"
    /\ pc = "run"
    /\ num_levels = 3
    /\ current_level = 1
    /\ queues[1] = <<>>
    /\ queues[3] # <<>>

\* the head of a queue is dispatched while another process waits behind it
\* on the same level
C29_WitnessFifo ==
    /\ algorithm = "MLFQ"
    /\ pc = "run"
    /\ queues[current_level + 1] # <<>>
    /\ gantt_chart # <<>>

\* C30: in SRTF and Preemptive Priority, whenever the process put on the
\* CPU differs from the process of the immediately preceding interval while
\* that process is still unfinished, context_switches is incremented by one
\* and a new Gantt interval is started for the new process.
C30_PreemptionCounted ==
    [][(/\ algorithm \in {"SRTF", "PreemptivePriority"}
        /\ pc = "loop" /\ pc' = "run"
        /\ gantt_chart # <<>>) =>
          LET previous == ByPid(processes, gantt_chart[Len(gantt_chart)][1])
              preempted == /\ running_process' # previous
                           /\ processes[previous].remaining_time > 0
          IN  /\ preempted => context_switches' = context_switches + 1
      ]_vars

\* the processes of ps that have been ready at some time of the run
EverReady(ps) == {i \in 1..Len(ps) : ps[i].state # "NEW"}

\* C31: Round Robin counts one context switch for every dispatch made once
\* more than one process has been ready, and none for a dispatch that ends
\* with only a single process ever ready; a run in which only one process
\* was ever ready reports context_switches = 0.
C31_SwitchPerDispatch ==
    [][(algorithm = "RR" /\ pc = "run") =>
          /\ Cardinality(EverReady(processes)) > 1 =>
                context_switches' = context_switches + 1
          /\ Cardinality(EverReady(processes')) <= 1 =>
                context_switches' = 0
      ]_vars

\* the time the process at position i of ps has run according to chart
Executed(chart, ps, i) ==
    SumSeq([k \in 1..Len(chart) |->
               IF chart[k][1] = ps[i].pid THEN chart[k][3] - chart[k][2]
               ELSE 0])

\* remaining_time is burst_time less the time run so far, is not negative,
\* and is 0 exactly for a TERMINATED process
RemainingAccounted(ps, chart) ==
    \A i \in 1..Len(ps) :
       /\ ps[i].remaining_time = ps[i].burst_time - Executed(chart, ps, i)
       /\ ps[i].remaining_time >= 0
       /\ ps[i].remaining_time = 0 <=> ps[i].state = "TERMINATED"

\* C32: under every scheduler, at every point of a run, remaining_time is
\* burst_time less the total length of the process's Gantt intervals so
\* far; it starts at burst_time, never increases, is never negative, and is
\* 0 exactly when the process is TERMINATED.
C32_RemainingTime ==
    [][/\ RemainingAccounted(processes, gantt_chart)
       /\ RemainingAccounted(processes', gantt_chart')
       /\ pc = "idle" =>
             \A i \in 1..Len(processes) :
                processes'[i].remaining_time = processes[i].burst_time
       /\ \A i \in 1..Len(processes) :
             processes'[i].remaining_time <= processes[i].remaining_time
      ]_vars

\* a process has been preempted with part of its burst done while another
\* process has terminated
C32_Witness ==
    /\ pc = "loop"
    /\ \E i, j \in 1..Len(processes) :
          /\ processes[i].state = "READY"
          /\ processes[i].remaining_time > 0
          /\ processes[i].remaining_time < processes[i].burst_time
          /\ processes[j].state = "TERMINATED"

\* the state changes one pass of a scheduler loop may make to a process:
\* admission, admission followed by dispatch, dispatch, preemption or
\* expiry of the quantum, completion
PassTransitions ==
    {<<"NEW", "READY">>, <<"NEW", "RUNNING">>, <<"READY", "RUNNING">>,
     <<"RUNNING", "READY">>, <<"RUNNING", "TERMINATED">>}

\* at most one process of ps is RUNNING and none is BLOCKED
SingleCpu(ps) ==
    /\ Cardinality({i \in 1..Len(ps) : ps[i].state = "RUNNING"}) <= 1
    /\ \A i \in 1..Len(ps) :
          ps[i].state \in {"NEW", "READY", "RUNNING", "TERMINATED"}

\* C33: during a schedule() run at most one process is RUNNING, no process
\* is ever BLOCKED, a process changes state only along NEW -> READY ->
\* RUNNING -> (READY | TERMINATED), a process is RUNNING only while it is
\* the running process of the scheduler, and a TERMINATED process keeps
\* that state.
C33_StateMachine ==
    [][/\ SingleCpu(processes)
       /\ SingleCpu(processes')
       /\ \A i \in 1..Len(processes) :
             /\ processes'[i].state = "RUNNING" => running_process' = i
             /\ \/ processes'[i].state = processes[i].state
                \/ <<processes[i].state, processes'[i].state>>
                      \in PassTransitions
             /\ <<processes[i].state, processes'[i].state>>
                   = <<"NEW", "RUNNING">> =>
                      /\ pc = "loop"
                      /\ processes[i].arrival_time <= current_time
             /\ processes[i].state = "RUNNING" =>
                   processes'[i].state \in {"READY", "TERMINATED"}
             /\ processes[i].state = "TERMINATED" =>
                   processes'[i].state = "TERMINATED"
      ]_vars

\* one process is on the CPU while another is ready and a third has
\* terminated
C33_Witness ==
    /\ pc = "run"
    /\ \E i, j, k \in 1..Len(processes) :
          /\ processes[i].state = "RUNNING"
          /\ processes[j].state = "READY"
          /\ processes[k].state = "TERMINATED"

\* the start of the first interval of pid in a chart that has one
FirstStart(chart, pid) ==
    chart[SetMin(IntervalsOf(chart, pid))][2]

\* response_time is -1 for a process never dispatched, and otherwise the
\* time of its first dispatch less its arrival time
ResponseRecorded(ps, chart, now) ==
    \A i \in 1..Len(ps) :
       IF IntervalsOf(chart, ps[i].pid) # {}
       THEN ps[i].response_time
               = FirstStart(chart, ps[i].pid) - ps[i].arrival_time
       ELSE IF ps[i].state = "RUNNING"
       THEN ps[i].response_time = now - ps[i].arrival_time
       ELSE ps[i].response_time = -1

\* C34: under every scheduler response_time is -1 until the first dispatch
\* of the process, is then set once to the clock of that dispatch (the start
\* of its first Gantt interval) less arrival_time, and is not changed by
\* later dispatches.
C34_ResponseOnce ==
    [][/\ ResponseRecorded(processes, gantt_chart, current_time)
       /\ ResponseRecorded(processes', gantt_chart', current_time')
       /\ \A i \in 1..Len(processes) :
             /\ processes[i].response_time # -1 =>
                   processes'[i].response_time = processes[i].response_time
             /\ processes'[i].response_time # processes[i].response_time =>
                   /\ processes'[i].state = "RUNNING"
                   /\ processes'[i].response_time
                         = current_time' - processes[i].arrival_time
      ]_vars

\* a process that waited before its first dispatch is dispatched again, at
\* a later time, and keeps the response time of the first dispatch
C34_Witness ==
    /\ pc = "run"
    /\ running_process # None
    /\ IntervalsOf(gantt_chart, processes[running_process].pid) # {}
    /\ processes[running_process].response_time > 0
    /\ processes[running_process].response_time
          < current_time - processes[running_process].arrival_time

\* the processes that wait in a ready queue of the scheduler
Queued ==
    Range(ready_queue) \cup Range(circular_queue)
       \cup UNION {Range(queues[l]) : l \in 1..Len(queues)}

\* C35: no scheduler runs a process before it has arrived: every Gantt
\* interval starts at or after the arrival time of its process, and a
\* process is in a ready queue, READY or RUNNING only when the clock has
\* reached its arrival time.
C35_NoRunBeforeArrival ==
    /\ \A k \in 1..Len(gantt_chart) :
          gantt_chart[k][2]
             >= processes[ByPid(processes, gantt_chart[k][1])].arrival_time
    /\ \A i \in 1..Len(processes) :
          (i \in Queued \/ processes[i].state # "NEW" \/ running_process = i)
             => processes[i].arrival_time <= current_time

\* the CPU has stayed idle until the first arrival, and a later arrival is
\* still to come while the first process runs
C35_Witness ==
    /\ pc = "run"
    /\ Len(processes) >= 2
    /\ gantt_chart = <<>>
    /\ current_time > 0
    /\ \E i \in 1..Len(processes) :
          /\ processes[i].state = "NEW"
          /\ processes[i].arrival_time > current_time

\* C36: every scheduler is work-conserving: whenever the clock advances,
\* either a Gantt interval covers the advance or no arrived process is
\* unfinished and the clock moves exactly to the next arrival time.
C36_WorkConserving ==
    [][current_time' # current_time =>
          IF gantt_chart' # gantt_chart
          THEN /\ Len(gantt_chart') = Len(gantt_chart) + 1
               /\ SubSeq(gantt_chart', 1, Len(gantt_chart)) = gantt_chart
               /\ gantt_chart'[Len(gantt_chart')][2] = current_time
               /\ gantt_chart'[Len(gantt_chart')][3] = current_time'
          ELSE LET unfinished == {i \in 1..Len(processes) :
                                     processes[i].remaining_time > 0}
               IN  /\ \A i \in unfinished :
                         processes[i].arrival_time > current_time
                   /\ unfinished # {}
                   /\ current_time'
                         = SetMin({processes[i].arrival_time : i \in unfinished})
      ]_vars

\* the CPU has been idle between two Gantt intervals and the next process
\* starts at its arrival time
C36_Witness ==
    /\ pc = "run"
    /\ gantt_chart # <<>>
    /\ gantt_chart[Len(gantt_chart)][3] < current_time
    /\ processes[running_process].arrival_time = current_time

\* the record of the process pid in a list that holds it
RecordOf(ps, pid) == ps[ByPid(ps, pid)]

\* C37: the outcome of a scheduler does not depend on the order of the
\* input list: a run on the same processes in another order returns the
\* same Gantt chart, context_switches, total_time and averages, and the
\* same metrics for every pid.
C37_OrderIndependent ==
    (pc = "returned" /\ history # <<>>) =>
        LET before == history[1].result
        IN  /\ [result EXCEPT !.processes = <<>>]
                  = [before EXCEPT !.processes = <<>>]
            /\ Len(result.processes) = Len(before.processes)
            /\ \A i \in 1..Len(result.processes) :
                  result.processes[i]
                     = RecordOf(before.processes, result.processes[i].pid)

\* a scheduler has run three processes, two of which tie in arrival time,
\* burst time and priority, a second time with the list in reverse order
C37_Witness ==
    /\ pc = "returned"
    /\ history # <<>>
    /\ Len(processes) = 3
    /\ processes[1].pid = 3 /\ processes[2].pid = 2 /\ processes[3].pid = 1
    /\ processes[1].arrival_time = processes[2].arrival_time
    /\ processes[1].burst_time = processes[2].burst_time
    /\ processes[1].priority = processes[2].priority
    /\ Len(result.gantt_chart) >= 3

\* the keys of the three lowest estimates for ps, best first
TopKeys(ps) ==
    LET analysis == AnalyzeWorkload(ps)
        sorted_estimates ==
            SortedEstimates(EstimatePerformance(analysis), analysis)
    IN [k \in 1..3 |-> sorted_estimates[k].key]

\* C38: for a non-empty workload with positive bursts select_scheduler
\* recommends FCFS, SRTF, Preemptive Priority or MLFQ, never Round Robin,
\* SJF or non-preemptive Priority: Round Robin and Priority are never among
\* the three lowest estimates and SJF is never the lowest.
C38_RecommendedAlgorithms ==
    (pc = "selected" /\ processes # <<>>) =>
        /\ recommendation.scheduler.algorithm
              \in {"FCFS", "SRTF", "PreemptivePriority", "MLFQ"}
        /\ recommendation.algorithm_name
              \in {"FCFS", "SRTF", "Preemptive Priority", "MLFQ"}
        /\ "RR" \notin Range(TopKeys(processes))
        /\ "Priority" \notin Range(TopKeys(processes))
        /\ TopKeys(processes)[1] # "SJF"

\* the selector has answered for far-apart priorities, where the estimate
\* of Priority equals that of SJF, which is third
C38_Witness ==
    /\ pc = "selected"
    /\ Len(processes) \in 2..10
    /\ DocPriorityOk(processes)
    /\ TopKeys(processes)[3] = "SJF"
    /\ recommendation.scheduler.algorithm \in {"SRTF", "PreemptivePriority"}

\* the selector has answered FCFS for a single process
C38_WitnessSingle ==
    /\ pc = "selected"
    /\ Len(processes) = 1
    /\ TopKeys(processes) = <<"FCFS", "SJF", "SRTF">>
    /\ recommendation.scheduler.algorithm = "FCFS"

\* the selector has answered for more than ten processes, where MLFQ is
\* third, and has not chosen it
C38_WitnessCrowd ==
    /\ pc = "selected"
    /\ Len(processes) > 10
    /\ TopKeys(processes)[3] = "MLFQ"
    /\ recommendation.scheduler.algorithm \in {"SRTF", "PreemptivePriority"}

\* ---------------------------------------------------------------------
\* Round Robin: the wait between two dispatches of one process
\* ---------------------------------------------------------------------

\* the position of process i in the queue cq
QueuePosition(cq, i) == CHOOSE j \in 1..Len(cq) : cq[j] = i

\* the processes queued ahead of process i in cq
Ahead(cq, i) == {cq[j] : j \in 1..(QueuePosition(cq, i) - 1)}

\* the intervals of chart that follow the last interval of pid
SinceLastRun(chart, pid) ==
    LET last == CHOOSE k \in 1..Len(chart) :
                   /\ chart[k][1] = pid
                   /\ \A m \in (k + 1)..Len(chart) : chart[m][1] # pid
    IN SubSeq(chart, last + 1, Len(chart))

\* C39: under Round Robin, while an unfinished process waits in the queue
\* the set of processes ahead of it only shrinks: each dispatch takes exactly
\* one process out of that set and a run step puts nothing into it (new
\* arrivals and the re-queued process join behind). So between two
\* consecutive dispatches of a process every process that was ahead of it is
\* dispatched exactly once, no process is dispatched twice, and the wait is
\* at most time_quantum per process that was ahead.
C39_BoundedWaiting ==
    [][algorithm = "RR" =>
         /\ \A i \in Range(circular_queue) \cap Range(circular_queue') :
               /\ (pc = "loop" /\ pc' = "run") =>
                     /\ running_process' \in Ahead(circular_queue, i)
                     /\ Ahead(circular_queue', i)
                          = Ahead(circular_queue, i) \ {running_process'}
               /\ pc = "run" =>
                     Ahead(circular_queue', i) = Ahead(circular_queue, i)
         /\ (pc = "run" /\ pc' = "loop"
               /\ running_process \in Range(circular_queue')) =>
               Ahead(circular_queue', running_process)
                 = Range(circular_queue') \ {running_process}
         /\ (pc = "loop" /\ pc' = "run"
               /\ \E k \in 1..Len(gantt_chart) :
                     gantt_chart[k][1] = processes[running_process'].pid) =>
               LET pid == processes[running_process'].pid
                   since == SinceLastRun(gantt_chart, pid)
                   last_end == gantt_chart[Len(gantt_chart) - Len(since)][3]
               IN /\ \A a, b \in 1..Len(since) :
                        since[a][1] = since[b][1] => a = b
                  /\ current_time' - last_end <= Len(since) * time_quantum
    ]_vars

\* a process is dispatched again after two other processes each ran one
\* full quantum in between
C39_Witness ==
    /\ algorithm = "RR"
    /\ pc = "run"
    /\ Len(processes) = 3
    /\ \E k \in 1..Len(gantt_chart) :
          gantt_chart[k][1] = processes[running_process].pid
    /\ LET since == SinceLastRun(gantt_chart,
                                 processes[running_process].pid)
       IN /\ Len(since) = 2
          /\ current_time - gantt_chart[Len(gantt_chart) - 2][3]
               = 2 * time_quantum

\* ---------------------------------------------------------------------
\* SRTF and SJF on processes that arrive together
\* ---------------------------------------------------------------------

\* all processes of ps have the same arrival_time
SameArrival(ps) ==
    \A i, j \in 1..Len(ps) : ps[i].arrival_time = ps[j].arrival_time

\* the times of the process records ps, by position
Times(ps) ==
    [i \in 1..Len(ps) |->
        <<ps[i].pid, ps[i].completion_time, ps[i].turnaround_time,
          ps[i].waiting_time, ps[i].response_time>>]

\* C40: when all processes have the same arrival_time, SRTF never preempts
\* (every process has one interval of its whole burst time) and SRTF and
\* SJF return the same Gantt chart and the same completion, turnaround,
\* waiting and response time for every process.
C40_SrtfEqualsSjf ==
    /\ (algorithm = "SRTF" /\ SameArrival(processes)
          /\ pc \in {"loop", "run", "exit", "returned"}) =>
          /\ \A a, b \in 1..Len(gantt_chart) :
                gantt_chart[a][1] = gantt_chart[b][1] => a = b
          /\ \A a \in 1..Len(gantt_chart) :
                gantt_chart[a][3] - gantt_chart[a][2]
                   = RecordOf(processes, gantt_chart[a][1]).burst_time
    /\ (pc = "returned" /\ SameArrival(processes)) =>
          \A k \in 1..Len(history) :
             {algorithm, history[k].config.algorithm} = {"SJF", "SRTF"} =>
                /\ result.gantt_chart = history[k].result.gantt_chart
                /\ Times(result.processes) = Times(history[k].result.processes)

\* SRTF has returned for two processes that arrive together, the longer one
\* first in the list, after SJF ran on the same processes
C40_Witness ==
    /\ pc = "returned"
    /\ algorithm = "SRTF"
    /\ Len(history) = 1
    /\ history[1].config.algorithm = "SJF"
    /\ Len(processes) = 2
    /\ SameArrival(processes)
    /\ processes[1].arrival_time > 0
    /\ processes[1].burst_time > processes[2].burst_time
    /\ Len(result.gantt_chart) = 2
    /\ result.gantt_chart[1][1] = processes[2].pid

\* SJF has returned after SRTF ran on processes that arrive together
C40_WitnessSjfSecond ==
    /\ pc = "returned"
    /\ algorithm = "SJF"
    /\ history # <<>>
    /\ history[Len(history)].config.algorithm = "SRTF"
    /\ Len(processes) = 2
    /\ SameArrival(processes)
    /\ processes[1].burst_time > processes[2].burst_time

====
